---- MODULE Spec2Model ----
(***************************************************************************)
(* Model of the layer manager of rpi-image-gen (site/layer_manager.py,     *)
(* site/env_types.py): the dependency resolver (get_build_order, the       *)
(* provider scope checks, the cycle detector) and the three-phase          *)
(* variable resolution that apply_env_vars_for_build_order runs over a     *)
(* build order.                                                            *)
(*                                                                         *)
(* Python exceptions are modelled as outcome records: a call either        *)
(* returns a value or raises ValueError (with the message's parts) or      *)
(* RecursionError (the interpreter's recursion limit, RecLimit frames of   *)
(* one recursive function).                                                *)
(***************************************************************************)
EXTENDS Integers, Sequences, FiniteSets, TLC

VARIABLES
    layers,        \* LayerManager.layers: loaded layer name -> parsed layer
    environ,       \* os.environ restricted to the declared variable names
    write_log,     \* LayerManager.write_log: ordered (name, value) pairs
    op,            \* the operation last called on the manager, with its arguments
    result,        \* the outcome of that operation
    pc,            \* position inside the constructor or inside
                   \* apply_env_vars_for_build_order
    entry_environ, \* apply: os.environ as it was when apply was entered
    todo,          \* apply, phase 2: all_vars still to resolve, sorted
    resolved,      \* apply, phase 2 result: ordered dict of resolved variables
    apply_idx,     \* apply, phase 3: index of the next resolved variable
    env_writes,    \* apply: the writes to os.environ, in order, each with the
                   \* number of variables not yet resolved when it happened
    files,         \* load_layers: the files discovery visits, in visiting order
    file_idx,      \* load_layers: index of the next file to visit
    layer_files,   \* LayerManager.layer_files: ordered (name, file) pairs;
                   \* self.layers is filled by the same step in the same order
    provider_index,     \* LayerManager.provider_index: token -> layer name
    provider_conflicts, \* LayerManager.provider_conflicts: token -> set of names
    out_file       \* the file named by write_out: its lines, or NoFile

load_vars == <<files, file_idx, layer_files, provider_index, provider_conflicts>>

vars == <<layers, environ, write_log, op, result, pc,
          entry_environ, todo, resolved, apply_idx, env_writes,
          load_vars, out_file>>

----------------------------------------------------------------------------
(* Bounds and universes *)

\* frames of one recursive function before the interpreter raises RecursionError
RecLimit == 6
\* longest declared dependency list of a layer
MaxDeps == 2
\* longest target list handed to get_build_order
MaxTargets == 2
\* longest provides list of a layer
MaxProv == 2
\* longest build order handed to apply_env_vars_for_build_order
MaxOrder == 3
\* most files discovery visits
MaxFiles == 3
\* most include directives of one INI file
MaxIncludes == 2

Names == {"A", "B", "C"}
Tokens == {"X", "Y"}
VarNames == {"V", "W"}
Unset == "<unset>"

SeqUpTo(S, n) == UNION {[1..k -> S] : k \in 0..n}

\* sequences without repetition
IsInjective(s) == \A i, j \in 1..Len(s) : s[i] = s[j] => i = j
InjSeqUpTo(S, n) == {s \in SeqUpTo(S, n) : IsInjective(s)}

Range(s) == {s[i] : i \in 1..Len(s)}

----------------------------------------------------------------------------
(* Outcomes of a call *)

NoErr == [kind |-> "none", value |-> <<>>, msg |-> <<>>]
Return(v) == [kind |-> "return", value |-> v, msg |-> <<>>]
ValueError(m) == [kind |-> "ValueError", value |-> <<>>, msg |-> m]
RecursionError == [kind |-> "RecursionError", value |-> <<>>, msg |-> <<>>]

----------------------------------------------------------------------------
(* Layer metadata *)

\* EnvLayer with the rest of its MetadataContainer: the declared variables
\* and, unless WithFields sets them, a variable prefix, no unsupported or
\* orphaned fields and no X-Env-VarRequires / X-Env-VarOptional lists
EnvLayer(deps, provides, requires_provider, variables) ==
    [deps |-> deps, provides |-> provides,
     requires_provider |-> requires_provider, variables |-> variables,
     var_prefix |-> TRUE, unsupported_var_fields |-> <<>>,
     unsupported_layer_fields |-> <<>>, orphaned |-> <<>>,
     required_vars |-> <<>>, optional_vars |-> <<>>]

\* EnvLayer.to_dict: the dictionary get_layer_info hands out
to_dict(l) ==
    [depends |-> l.deps, optional_depends |-> <<>>,
     provides |-> l.provides, provider_requires |-> l.requires_provider]

\* LayerManager.get_layer_info: None for a name that is not loaded
HasLayerInfo(layer_name) == layer_name \in DOMAIN layers
get_layer_info(layer_name) == to_dict(layers[layer_name])

\* get_dependencies reading the optional dependencies instead
get_dependencies_optional(layer_name) ==
    IF HasLayerInfo(layer_name)
    THEN get_layer_info(layer_name).optional_depends ELSE <<>>

get_dependencies(layer_name) ==
    IF HasLayerInfo(layer_name) THEN get_layer_info(layer_name).depends ELSE <<>>

get_optional_dependencies(layer_name) ==
    IF HasLayerInfo(layer_name)
    THEN get_layer_info(layer_name).optional_depends ELSE <<>>

----------------------------------------------------------------------------
(* Metadata.validate_env_vars and what is built on it *)

\* an ordered dict is a sequence of entries with a name field, in insertion
\* order: the index of the entry of key k, 0 if there is none
RECURSIVE IndexOf(_, _, _)
IndexOf(d, k, i) ==
    IF i > Len(d) THEN 0 ELSE IF d[i].name = k THEN i ELSE IndexOf(d, k, i + 1)

\* a validation rule of X-Env-VarRequires-Valid / X-Env-VarOptional-Valid:
\* none given, one parse_validator rejects, or one that accepts a set of values
NoRule == [kind |-> "none", accepts |-> {}]
UnsupportedRule == [kind |-> "unsupported", accepts |-> {}]
Rule(accepts) == [kind |-> "rule", accepts |-> accepts]

\* a MetadataContainer with fields that EnvLayer leaves at their defaults
WithFields(l, var_prefix, unsupported_var_fields, unsupported_layer_fields, orphaned, required_vars, optional_vars) ==
    [l EXCEPT !.var_prefix = var_prefix,
              !.unsupported_var_fields = unsupported_var_fields,
              !.unsupported_layer_fields = unsupported_layer_fields,
              !.orphaned = orphaned,
              !.required_vars = required_vars,
              !.optional_vars = optional_vars]

\* ValidationResultBuilder.build_result; valid is "True", "False" or "None"
build_result(status, valid) == [status |-> status, valid |-> valid]

\* ordered dict: results[key] = result. A key is the pair of the prefix the
\* code puts before the name ("" for the bare variable name) and the name.
SetResult(results, key, res) ==
    LET i == IndexOf(results, key, 1)
        e == [name |-> key, status |-> res.status, valid |-> res.valid]
    IN IF i = 0 THEN Append(results, e) ELSE [results EXCEPT ![i] = e]

check_unsupported_fields(meta) == meta.unsupported_var_fields
check_unsupported_layer_fields(meta) == meta.unsupported_layer_fields

RECURSIVE unsupported_results(_, _, _, _)
\* one unsupported_field result per field, under the given key prefix
unsupported_results(prefix, fields, i, results) ==
    IF i > Len(fields) THEN results
    ELSE unsupported_results(prefix, fields, i + 1,
             SetResult(results, <<prefix, fields[i]>>,
                       build_result("unsupported_field", "False")))

\* _collect_schema_errors: unsupported layer fields, then variable fields
collect_schema_errors(meta) ==
    unsupported_results("UNSUPPORTED_FIELD_",
        check_unsupported_layer_fields(meta) \o check_unsupported_fields(meta),
        1, <<>>)

RECURSIVE orphaned_results(_, _, _)
orphaned_results(orphaned, i, results) ==
    IF i > Len(orphaned) THEN results
    ELSE orphaned_results(orphaned, i + 1,
             SetResult(results, <<"ORPHANED_ATTRS_", orphaned[i]>>,
                       build_result("orphaned_attributes", "False")))

\* _validate_prefix_and_orphans
validate_prefix_and_orphans(meta) ==
    IF meta.variables # <<>> /\ ~meta.var_prefix
    THEN SetResult(<<>>, <<"", "MISSING_VAR_PREFIX">>,
                   build_result("missing_var_prefix", "False"))
    ELSE orphaned_results(meta.orphaned, 1, <<>>)


\* EnvVariable.validate_value(value): the validator's errors, <<>> if none
validate_value(env_var, value) ==
    IF ~env_var.validator.present \/ value \in env_var.validator.accepts
    THEN <<>> ELSE <<"error">>

\* the test that skips a lazy default which lost to the environment
LazyOverridden(env_var, current_value) ==
    /\ env_var.set_policy = "lazy"
    /\ current_value # Unset
    /\ current_value # env_var.value

\* the results of one declared variable. (Its rule has parsed when the
\* container was built, or the file would not have produced a Metadata, so
\* the unsupported-rule record of a declared variable is never produced.)
validate_defined_variable_default_only(env_var, env, results) ==
    IF /\ env_var.validator.present
       /\ validate_value(env_var, env_var.value) # <<>>
    THEN SetResult(results, <<"DEFAULT_", env_var.name>>,
                   build_result("invalid_default", "False"))
    ELSE SetResult(results, <<"", env_var.name>>,
                   build_result("optional_unset", "None"))

validate_defined_variable(env_var, env, results) ==
    LET current_value == env[env_var.name]
        key == <<"", env_var.name>>
        r1 == IF /\ env_var.validator.present
                 /\ env_var.set_policy # "skip"
                 /\ validate_value(env_var, env_var.value) # <<>>
              THEN SetResult(results, <<"DEFAULT_", env_var.name>>,
                             build_result("invalid_default", "False"))
              ELSE results
    IN IF LazyOverridden(env_var, current_value)
       THEN SetResult(results, key, build_result("lazy_overridden", "True"))
       ELSE IF env_var.required /\ current_value = Unset
       THEN SetResult(r1, key, build_result("missing_required", "False"))
       ELSE IF current_value # Unset
       THEN IF env_var.validator.present
            THEN SetResult(r1, key, build_result("validated",
                     IF validate_value(env_var, current_value) = <<>>
                     THEN "True" ELSE "False"))
            ELSE SetResult(r1, key, build_result("no_validation", "None"))
       ELSE SetResult(r1, key, build_result("optional_unset", "None"))

RECURSIVE validate_defined_variables(_, _, _, _)
\* _validate_defined_variables: the loop over container.variables
validate_defined_variables(variables, j, env, results) ==
    IF j > Len(variables) THEN results
    ELSE validate_defined_variables(variables, j + 1, env,
             validate_defined_variable(variables[j], env, results))

RECURSIVE validate_required_variables(_, _, _, _)
\* _validate_required_variables: entries (name, rule) of X-Env-VarRequires
validate_required_variables(required_vars, i, env, results) ==
    IF i > Len(required_vars) THEN results
    ELSE LET req_var == required_vars[i].name
             valid_rule == required_vars[i].rule
             current_value == env[req_var]
             r == IF current_value = Unset
                  THEN build_result("missing_required_var", "False")
                  ELSE IF valid_rule.kind = "unsupported"
                  THEN build_result("unsupported_field", "False")
                  ELSE IF valid_rule.kind = "rule"
                  THEN build_result("required_validated",
                           IF current_value \in valid_rule.accepts
                           THEN "True" ELSE "False")
                  ELSE build_result("required_no_validation", "None")
         IN validate_required_variables(required_vars, i + 1, env,
                SetResult(results, <<"REQUIRED_", req_var>>, r))

RECURSIVE validate_optional_variables(_, _, _, _)
\* _validate_optional_variables: entries (name, rule) of X-Env-VarOptional
validate_optional_variables(optional_vars, i, env, results) ==
    IF i > Len(optional_vars) THEN results
    ELSE LET opt_var == optional_vars[i].name
             valid_rule == optional_vars[i].rule
             current_value == env[opt_var]
             r == IF current_value = Unset
                  THEN build_result("optional_var_unset", "None")
                  ELSE IF valid_rule.kind = "unsupported"
                  THEN build_result("unsupported_field", "False")
                  ELSE IF valid_rule.kind = "rule"
                  THEN build_result("optional_validated",
                           IF current_value \in valid_rule.accepts
                           THEN "True" ELSE "False")
                  ELSE build_result("optional_no_validation", "None")
         IN validate_optional_variables(optional_vars, i + 1, env,
                SetResult(results, <<"OPTIONAL_", opt_var>>, r))

\* _validate_layer_fields
validate_layer_fields(meta, results) ==
    unsupported_results("UNSUPPORTED_LAYER_FIELD_",
        check_unsupported_layer_fields(meta), 1, results)

\* Metadata.validate_env_vars under the environment env: the ordered dict of
\* results, schema errors or prefix errors alone if there are any
validate_env_vars(meta, env) ==
    IF collect_schema_errors(meta) # <<>> THEN collect_schema_errors(meta)
    ELSE IF validate_prefix_and_orphans(meta) # <<>>
    THEN validate_prefix_and_orphans(meta)
    ELSE validate_layer_fields(meta,
             validate_optional_variables(meta.optional_vars, 1, env,
                 validate_required_variables(meta.required_vars, 1, env,
                     validate_defined_variables(meta.variables, 1, env, <<>>))))

lint_statuses ==
    {"unsupported_field", "missing_var_prefix", "orphaned_attributes",
     "invalid_default", "invalid_validation_rule"}

\* Metadata.lint_metadata_syntax under the environment env
lint_metadata_syntax(meta, env) ==
    SelectSeq(validate_env_vars(meta, env),
              LAMBDA res : res.status \in lint_statuses)

\* the results validate_single_layer_env_vars sets layer_valid = False for
CountsAsFailure(res, ignore_missing_required) ==
    \/ /\ res.status \in {"missing_required", "missing_required_var"}
       /\ ~ignore_missing_required
    \/ /\ res.status \in {"validated", "required_validated"}
       /\ res.valid = "False"

----------------------------------------------------------------------------
(* get_build_order: pre-validation *)

\* check_missing_dependencies without its recursion guard
AlreadyChecked_never(layer_name, checked) == FALSE

\* the recursion guard of check_missing_dependencies
AlreadyChecked(layer_name, checked) == layer_name \in checked

RECURSIVE check_missing_dependencies(_, _, _)
RECURSIVE check_missing_each(_, _, _, _)

\* st = [checked, err]; depth = frames of check_missing_dependencies in use
check_missing_dependencies(layer_name, st, depth) ==
    IF st.err # NoErr THEN st
    ELSE IF depth > RecLimit THEN [st EXCEPT !.err = RecursionError]
    ELSE IF AlreadyChecked(layer_name, st.checked) THEN st
    ELSE LET st1 == [st EXCEPT !.checked = @ \cup {layer_name}] IN
         IF layer_name \notin DOMAIN layers
         THEN [st1 EXCEPT !.err =
                  ValueError(<<"Missing required dependency", layer_name>>)]
         ELSE check_missing_each(get_dependencies(layer_name), 1, st1, depth)

\* the loop "for dep in self.get_dependencies(layer_name)"
check_missing_each(deps, i, st, depth) ==
    IF i > Len(deps) \/ st.err # NoErr THEN st
    ELSE check_missing_each(deps, i + 1,
             check_missing_dependencies(deps[i], st, depth + 1), depth)

\* "for layer in target_layers: check_missing_dependencies(layer)":
\* a fresh checked set per target, the first error ends the loop
RECURSIVE check_missing_targets(_, _)
check_missing_targets(target_layers, i) ==
    IF i > Len(target_layers) THEN NoErr
    ELSE LET st == check_missing_dependencies(target_layers[i],
                       [checked |-> {}, err |-> NoErr], 1) IN
         IF st.err # NoErr THEN st.err
         ELSE check_missing_targets(target_layers, i + 1)

----------------------------------------------------------------------------
(* get_build_order: order construction *)

\* the final test of add_layer_and_deps before it appends the layer
AppendIfNew(layer_name, st) ==
    IF layer_name \notin st.processed
    THEN [st EXCEPT !.build_order = Append(@, layer_name),
                    !.processed = @ \cup {layer_name}]
    ELSE st

\* "if layer_name in processed: return"
Visited(layer_name, processed) == layer_name \in processed

RECURSIVE add_layer_and_deps(_, _, _)
RECURSIVE add_each(_, _, _, _, _)

\* a depth-first visit that marks the layer processed before it visits the
\* dependencies (what add_layer_and_deps does not do)
add_layer_and_deps_marking(layer_name, st, depth) ==
    IF st.err # NoErr THEN st
    ELSE IF depth > RecLimit THEN [st EXCEPT !.err = RecursionError]
    ELSE IF Visited(layer_name, st.processed) THEN st
    ELSE LET st0 == [st EXCEPT !.processed = @ \cup {layer_name}]
             st1 == add_each(get_dependencies(layer_name), 1, st0, depth, FALSE)
             st2 == add_each(get_optional_dependencies(layer_name), 1, st1,
                             depth, TRUE)
         IN IF st2.err # NoErr THEN st2
            ELSE [st2 EXCEPT !.build_order = Append(@, layer_name)]

\* st = [build_order, processed, err]
add_layer_and_deps(layer_name, st, depth) ==
    IF st.err # NoErr THEN st
    ELSE IF depth > RecLimit THEN [st EXCEPT !.err = RecursionError]
    ELSE IF Visited(layer_name, st.processed) THEN st
    ELSE LET st1 == add_each(get_dependencies(layer_name), 1, st, depth, FALSE)
             st2 == add_each(get_optional_dependencies(layer_name), 1, st1,
                             depth, TRUE)
         IN IF st2.err # NoErr THEN st2 ELSE AppendIfNew(layer_name, st2)

\* the two loops over dependencies; an optional one is visited only if loaded
add_each(deps, i, st, depth, optional) ==
    IF i > Len(deps) \/ st.err # NoErr THEN st
    ELSE IF optional /\ deps[i] \notin DOMAIN layers
         THEN add_each(deps, i + 1, st, depth, optional)
         ELSE add_each(deps, i + 1,
                  add_layer_and_deps(deps[i], st, depth + 1), depth, optional)

RECURSIVE add_targets(_, _, _)

\* a loop over the targets that stops after the first one
add_targets_first(target_layers, i, st) ==
    IF i > Len(target_layers) \/ i > 1 \/ st.err # NoErr THEN st
    ELSE add_layer_and_deps(target_layers[1], st, 1)

\* "for layer in target_layers: add_layer_and_deps(layer)"
add_targets(target_layers, i, st) ==
    IF i > Len(target_layers) \/ st.err # NoErr THEN st
    ELSE add_targets(target_layers, i + 1,
             add_layer_and_deps(target_layers[i], st, 1))

----------------------------------------------------------------------------
(* get_build_order: scope validation *)

\* a scope check that never finds the provider taken
ProviderTaken_never(provider, scope_providers) == FALSE

\* "if provider in scope_providers"
ProviderTaken(provider, scope_providers) == provider \in DOMAIN scope_providers

\* "scope_providers[provider] = layer_name"
SetItem(d, k, v) == [x \in DOMAIN d \cup {k} |-> IF x = k THEN v ELSE d[x]]

EmptyDict == [x \in {} |-> x]

RECURSIVE conflicts_in_layer(_, _, _, _)
\* the inner loop over one layer's provides; st = [scope_providers, err]
conflicts_in_layer(layer_name, provides, j, st) ==
    IF j > Len(provides) \/ st.err # NoErr THEN st
    ELSE IF ProviderTaken(provides[j], st.scope_providers)
         THEN [st EXCEPT !.err = ValueError(<<"Provider conflict", provides[j],
                                   st.scope_providers[provides[j]], layer_name>>)]
         ELSE conflicts_in_layer(layer_name, provides, j + 1,
                  [st EXCEPT !.scope_providers = SetItem(@, provides[j], layer_name)])

RECURSIVE conflicts_in_scope(_, _, _)
conflicts_in_scope(layer_names, i, st) ==
    IF i > Len(layer_names) \/ st.err # NoErr THEN st
    ELSE IF ~HasLayerInfo(layer_names[i])
         THEN conflicts_in_scope(layer_names, i + 1, st)
         ELSE conflicts_in_scope(layer_names, i + 1,
                  conflicts_in_layer(layer_names[i],
                      get_layer_info(layer_names[i]).provides, 1, st))

\* the error _check_provider_conflicts_in_scope raises, NoErr if it returns
check_provider_conflicts_in_scope(layer_names) ==
    conflicts_in_scope(layer_names, 1,
        [scope_providers |-> EmptyDict, err |-> NoErr]).err

\* "available_providers": the provides of the layers of the build order
available_providers(order) ==
    UNION {Range(get_layer_info(order[i]).provides) :
               i \in {k \in 1..Len(order) : HasLayerInfo(order[k])}}

\* a requirement test against the providers of all loaded layers
Unsatisfied_anywhere(required_provider, available) ==
    required_provider \notin UNION {Range(layers[n].provides) : n \in DOMAIN layers}

\* "if required_provider not in available_providers"
Unsatisfied(required_provider, available) == required_provider \notin available

RECURSIVE requirements_of_layer(_, _, _, _)
requirements_of_layer(layer_name, requires, j, available) ==
    IF j > Len(requires) THEN NoErr
    ELSE IF Unsatisfied(requires[j], available)
         THEN ValueError(<<"requires provider", layer_name, requires[j]>>)
         ELSE requirements_of_layer(layer_name, requires, j + 1, available)

RECURSIVE requirements_in_order(_, _, _)
requirements_in_order(order, i, available) ==
    IF i > Len(order) THEN NoErr
    ELSE LET e == IF HasLayerInfo(order[i])
                  THEN requirements_of_layer(order[i],
                           get_layer_info(order[i]).provider_requires, 1, available)
                  ELSE NoErr
         IN IF e # NoErr THEN e ELSE requirements_in_order(order, i + 1, available)

\* the error _validate_provider_requirements raises, NoErr if it returns:
\* the scope conflict check runs first
validate_provider_requirements(order) ==
    LET c == check_provider_conflicts_in_scope(order) IN
    IF c # NoErr THEN c
    ELSE requirements_in_order(order, 1, available_providers(order))

\* get_build_order(target_layers): its outcome
get_build_order(target_layers) ==
    LET missing == check_missing_targets(target_layers, 1) IN
    IF missing # NoErr THEN missing
    ELSE LET st == add_targets(target_layers, 1,
                       [build_order |-> <<>>, processed |-> {}, err |-> NoErr]) IN
         IF st.err # NoErr THEN st.err
         ELSE LET v == validate_provider_requirements(st.build_order) IN
              IF v # NoErr THEN v ELSE Return(st.build_order)

----------------------------------------------------------------------------
(* _check_circular_dependencies *)

\* a cycle test that looks at the start of the path only
OnPath_start(layer_name, path) == Len(path) > 0 /\ path[1] = layer_name

\* "if layer_name in path: return path + [layer_name]"
OnPath(layer_name, path) == \E i \in 1..Len(path) : path[i] = layer_name

RECURSIVE check_circular_dependencies(_, _, _)
RECURSIVE check_circular_each(_, _, _, _)

check_circular_dependencies(layer_name, path, depth) ==
    IF depth > RecLimit THEN RecursionError
    ELSE IF OnPath(layer_name, path) THEN Return(Append(path, layer_name))
    ELSE IF layer_name \notin DOMAIN layers THEN Return(<<>>)
    ELSE check_circular_each(get_dependencies(layer_name), 1,
             Append(path, layer_name), depth)

\* "for dep in ...: cycle = ...; if cycle: return cycle", then "return []"
check_circular_each(deps, i, path, depth) ==
    IF i > Len(deps) THEN Return(<<>>)
    ELSE LET cycle == check_circular_dependencies(deps[i], path, depth + 1) IN
         IF cycle.kind # "return" \/ cycle.value # <<>> THEN cycle
         ELSE check_circular_each(deps, i + 1, path, depth)

----------------------------------------------------------------------------
(* Discovery: load_layers and _build_provider_index *)

\* what discovery finds in a file: one Metadata() raises on, one whose
\* get_layer_info() is None, or one that declares the layer name
Malformed ==
    [kind |-> "malformed", name |-> "", meta |-> EnvLayer(<<>>, <<>>, <<>>, <<>>)]
NoLayerInfo ==
    [kind |-> "nolayer", name |-> "", meta |-> EnvLayer(<<>>, <<>>, <<>>, <<>>)]
LayerFile(name, meta) == [kind |-> "layer", name |-> name, meta |-> meta]

\* the file at a path, as load_layers sees it
FileAt(path, content) ==
    [path |-> path, kind |-> content.kind, name |-> content.name,
     meta |-> content.meta]

\* ordered dict: layer_files[layer_name] = metadata_file
SetFile(d, layer_name, metadata_file) ==
    LET i == IndexOf(d, layer_name, 1)
        e == [name |-> layer_name, file |-> metadata_file]
    IN IF i = 0 THEN Append(d, e) ELSE [d EXCEPT ![i] = e]

\* a duplicate test that never finds the name
IsDuplicate_never(layer_name, loaded) == FALSE

\* "if layer_name in self.layers"
IsDuplicate(layer_name, loaded) == layer_name \in DOMAIN loaded

\* one turn of the loop over all_files; st = [layers, layer_files, err]
load_file(metadata_file, st, env) ==
    IF metadata_file.kind = "malformed" THEN st
    ELSE IF metadata_file.kind = "nolayer" THEN st
    ELSE IF lint_metadata_syntax(metadata_file.meta, env) # <<>> THEN st
    ELSE IF IsDuplicate(metadata_file.name, st.layers)
    THEN [st EXCEPT !.err = ValueError(<<"Duplicate layer name",
              metadata_file.name,
              st.layer_files[IndexOf(st.layer_files, metadata_file.name, 1)].file,
              metadata_file.path>>)]
    ELSE [st EXCEPT !.layers = SetItem(@, metadata_file.name, metadata_file.meta),
                    !.layer_files = SetFile(@, metadata_file.name,
                                            metadata_file.path)]

\* "existing = self.provider_index.get(prov)": "if existing and existing != lname"
HasOtherProvider(prov, lname, index) ==
    prov \in DOMAIN index /\ index[prov] # lname

\* a conflict branch that moves the mapping to the later layer
index_after_conflict_last(index, prov, lname) == SetItem(index, prov, lname)

\* provider_index after the conflict branch, which does not assign to it
index_after_conflict(index, prov, lname) == index

RECURSIVE index_layer(_, _, _, _)
\* the loop over one layer's provides; st = [provider_index, provider_conflicts]
index_layer(lname, provides, j, st) ==
    IF j > Len(provides) THEN st
    ELSE LET prov == provides[j] IN
         IF HasOtherProvider(prov, lname, st.provider_index)
         THEN index_layer(lname, provides, j + 1,
                  [provider_index |->
                       index_after_conflict(st.provider_index, prov, lname),
                   provider_conflicts |->
                       SetItem(st.provider_conflicts, prov,
                           (IF prov \in DOMAIN st.provider_conflicts
                            THEN st.provider_conflicts[prov] ELSE {})
                               \cup {st.provider_index[prov], lname})])
         ELSE index_layer(lname, provides, j + 1,
                  [st EXCEPT !.provider_index = SetItem(@, prov, lname)])

RECURSIVE build_provider_index(_, _, _, _)
\* _build_provider_index: "for lname, layer in self.layers.items()", the
\* insertion order of self.layers being that of loaded_files
build_provider_index(loaded, loaded_files, i, st) ==
    IF i > Len(loaded_files) THEN st
    ELSE build_provider_index(loaded, loaded_files, i + 1,
             index_layer(loaded_files[i].name,
                 to_dict(loaded[loaded_files[i].name]).provides, 1, st))

EmptyIndex == [provider_index |-> EmptyDict, provider_conflicts |-> EmptyDict]

NoFile == <<"<no file>">>

----------------------------------------------------------------------------
(* The manager after construction *)

\* the layer sets a manager can have loaded: any subset of Names, each layer
\* with its lists drawn from the given sets
LayerSets(depLists, provLists, reqLists, varLists) ==
    UNION {[S -> {EnvLayer(d, p, r, v) : d \in depLists, p \in provLists,
                                           r \in reqLists, v \in varLists}] :
               S \in SUBSET Names}

\* declared dependency lists: different names in declared order, or one name
\* declared twice (a name may be the layer itself or a layer that is not loaded)
DepLists == InjSeqUpTo(Names, MaxDeps) \cup {<<n, n>> : n \in Names}

TargetLists == SeqUpTo(Names, MaxTargets)

\* no call is under way and none is waiting to be read by the caller
Idle == [name |-> "idle", args |-> <<>>]

\* the path a layer was loaded from, and the order the files were visited in
PathOf(layer_name) ==
    CASE layer_name = "A" -> "f1" [] layer_name = "B" -> "f2" [] OTHER -> "f3"
VisitOrder == <<"A", "B", "C">>

\* the files discovery has visited to load the layers of loaded
FilesOf(loaded) ==
    LET names == SelectSeq(VisitOrder, LAMBDA n : n \in DOMAIN loaded) IN
    [i \in 1..Len(names) |->
        FileAt(PathOf(names[i]), LayerFile(names[i], loaded[names[i]]))]

\* a constructed manager: discovery has visited one file per layer, every
\* variable of the apply is at rest
InitManager(layerSets, environs) ==
    /\ layers \in layerSets
    /\ environ \in environs
    /\ write_log = <<>>
    /\ op = Idle
    /\ result = NoErr
    /\ pc = "idle"
    /\ entry_environ = [v \in VarNames |-> Unset]
    /\ todo = <<>>
    /\ resolved = <<>>
    /\ apply_idx = 0
    /\ env_writes = <<>>
    /\ files = FilesOf(layers)
    /\ file_idx = Len(files) + 1
    /\ layer_files = [i \in 1..Len(files) |->
                         [name |-> files[i].name, file |-> files[i].path]]
    /\ LET st == build_provider_index(layers, layer_files, 1, EmptyIndex) IN
          /\ provider_index = st.provider_index
          /\ provider_conflicts = st.provider_conflicts
    /\ out_file = NoFile

UnsetEnviron == [v \in VarNames |-> Unset]

\* layers that differ in their required dependencies only
Init == InitManager(LayerSets(DepLists, {<<>>}, {<<>>}, {<<>>}), {UnsetEnviron})

apply_vars == <<pc, entry_environ, todo, resolved, apply_idx, env_writes>>

\* a get_build_order that clears the log of the last apply
GetBuildOrder_clearing ==
    /\ pc = "idle" /\ op = Idle
    /\ \E target_layers \in TargetLists :
          /\ op' = [name |-> "get_build_order", args |-> target_layers]
          /\ result' = get_build_order(target_layers)
    /\ write_log' = <<>>
    /\ UNCHANGED <<layers, environ, apply_vars, load_vars, out_file>>

\* a call of get_build_order(target_layers)
GetBuildOrder ==
    /\ pc = "idle" /\ op = Idle
    /\ \E target_layers \in TargetLists :
          /\ op' = [name |-> "get_build_order", args |-> target_layers]
          /\ result' = get_build_order(target_layers)
    /\ UNCHANGED <<layers, environ, write_log, apply_vars, load_vars, out_file>>

\* a call of _check_circular_dependencies(layer_name)
CheckCircularDependencies ==
    /\ pc = "idle" /\ op = Idle
    /\ \E layer_name \in Names :
          /\ op' = [name |-> "_check_circular_dependencies", args |-> <<layer_name>>]
          /\ result' = check_circular_dependencies(layer_name, <<>>, 1)
    /\ UNCHANGED <<layers, environ, write_log, apply_vars, load_vars, out_file>>

\* the caller has read the outcome; the manager takes the next call
ReturnToCaller ==
    /\ pc = "idle" /\ op # Idle
    /\ op' = Idle
    /\ result' = NoErr
    /\ UNCHANGED <<layers, environ, write_log, apply_vars, load_vars, out_file>>

NextOrder == GetBuildOrder \/ CheckCircularDependencies \/ ReturnToCaller

Spec == Init /\ [][NextOrder]_vars

----------------------------------------------------------------------------
(* Construction of a manager: LayerManager.__init__ over a directory tree *)

Paths == {"f1", "f2", "f3"}

\* a declared variable V with a lazy default that its own rule rejects
LazyInvalidDefault ==
    EnvLayer(<<>>, <<"X">>, <<>>,
        <<[name |-> "V", value |-> "a", required |-> FALSE,
           validator |-> [present |-> TRUE, accepts |-> {"b"}],
           set_policy |-> "lazy"]>>)

\* attribute fields of a variable that has no base definition
OrphanedAttribute ==
    WithFields(EnvLayer(<<>>, <<"X">>, <<>>, <<>>),
               TRUE, <<>>, <<>>, <<"v">>, <<>>, <<>>)

\* X-Env-VarRequires: V with a rule that parse_validator rejects
RequiresUnsupportedRule ==
    WithFields(EnvLayer(<<>>, <<"X">>, <<>>, <<>>),
               TRUE, <<>>, <<>>, <<>>,
               <<[name |-> "V", rule |-> UnsupportedRule]>>, <<>>)

\* a declared variable V in a file that has no X-Env-VarPrefix
VariableWithoutPrefix ==
    WithFields(EnvLayer(<<>>, <<"X">>, <<>>,
                   <<[name |-> "V", value |-> "a", required |-> TRUE,
                      validator |-> [present |-> FALSE, accepts |-> {}],
                      set_policy |-> "immediate"]>>),
               FALSE, <<>>, <<>>, <<>>, <<>>, <<>>)

\* what a file can hold: nothing loadable, a layer A, B or C that provides X
\* or nothing, a layer A that lists X twice, or a layer C with one of the
\* four metadata above
Contents ==
    {Malformed, NoLayerInfo}
        \cup {LayerFile(n, EnvLayer(<<>>, p, <<>>, <<>>)) :
                  n \in Names, p \in {<<>>, <<"X">>}}
        \cup {LayerFile("A", EnvLayer(<<>>, <<"X", "X">>, <<>>, <<>>))}
        \cup {LayerFile("C", m) :
                  m \in {LazyInvalidDefault, OrphanedAttribute,
                         RequiresUnsupportedRule, VariableWithoutPrefix}}

\* the paths discovery visits, in order: a path may come up more than once
\* (two patterns that match it, two search paths that hold it); paths are
\* numbered in the order of their first visit
Visits ==
    {v \in SeqUpTo(Paths, MaxFiles) :
         \A i \in 1..Len(v) :
             \/ v[i] = "f1"
             \/ v[i] = "f2" /\ \E j \in 1..(i - 1) : v[j] = "f1"
             \/ v[i] = "f3" /\ \E j \in 1..(i - 1) : v[j] = "f2"}

DiscoveryLists ==
    {[i \in 1..Len(v) |-> FileAt(v[i], fs[v[i]])] :
         v \in Visits, fs \in [Paths -> Contents]}

\* the environment of the process that constructs the manager: V unset or set
LoadEnvirons == {UnsetEnviron, [UnsetEnviron EXCEPT !["V"] = "y"]}

InitLoad ==
    /\ files \in DiscoveryLists
    /\ file_idx = 1
    /\ layers = EmptyDict
    /\ layer_files = <<>>
    /\ provider_index = EmptyDict
    /\ provider_conflicts = EmptyDict
    /\ environ \in LoadEnvirons
    /\ write_log = <<>>
    /\ op = [name |-> "__init__", args |-> <<>>]
    /\ result = NoErr
    /\ pc = "load"
    /\ entry_environ = UnsetEnviron
    /\ todo = <<>>
    /\ resolved = <<>>
    /\ apply_idx = 0
    /\ env_writes = <<>>
    /\ out_file = NoFile

\* load_layers: one turn of the loop over the files; the duplicate error
\* leaves __init__ and no manager is constructed
LoadFile ==
    /\ pc = "load" /\ file_idx <= Len(files)
    /\ LET st == load_file(files[file_idx],
                     [layers |-> layers, layer_files |-> layer_files,
                      err |-> NoErr], environ)
       IN /\ layers' = st.layers
          /\ layer_files' = st.layer_files
          /\ IF st.err # NoErr
             THEN /\ pc' = "failed"
                  /\ result' = st.err
                  /\ file_idx' = file_idx
             ELSE /\ file_idx' = file_idx + 1
                  /\ UNCHANGED <<pc, result>>
    /\ UNCHANGED <<environ, write_log, op, entry_environ, todo, resolved,
                   apply_idx, env_writes, files, provider_index,
                   provider_conflicts, out_file>>

\* load_layers has returned: _build_provider_index, and __init__ returns
BuildProviderIndex ==
    /\ pc = "load" /\ file_idx > Len(files)
    /\ LET st == build_provider_index(layers, layer_files, 1,
                     [provider_index |-> provider_index,
                      provider_conflicts |-> provider_conflicts])
       IN /\ provider_index' = st.provider_index
          /\ provider_conflicts' = st.provider_conflicts
    /\ pc' = "idle"
    /\ result' = Return(<<>>)
    /\ UNCHANGED <<layers, environ, write_log, op, entry_environ, todo, resolved,
                   apply_idx, env_writes, files, file_idx, layer_files, out_file>>

NextLoad == LoadFile \/ BuildProviderIndex

SpecLoad == InitLoad /\ [][NextLoad]_vars

----------------------------------------------------------------------------
(* Layers that differ in their provider lists *)

ProvLists == SeqUpTo(Tokens, MaxProv)
ReqLists == {<<>>, <<"X">>}

\* all three layers loaded; A may require B, B may require C
ProvLayerSets ==
    {("A" :> EnvLayer(dA, pA, rA, <<>>)) @@ ("B" :> EnvLayer(dB, pB, rB, <<>>))
        @@ ("C" :> EnvLayer(<<>>, pC, rC, <<>>)) :
         dA \in {<<>>, <<"B">>}, dB \in {<<>>, <<"C">>},
         pA \in ProvLists, pB \in ProvLists, pC \in {<<>>, <<"X">>},
         rA \in ReqLists, rB \in ReqLists, rC \in ReqLists}

InitProv == InitManager(ProvLayerSets, {UnsetEnviron})

SpecProv == InitProv /\ [][NextOrder]_vars

----------------------------------------------------------------------------
(* Variable definitions *)

\* no validator, or a validator that accepts exactly the values in accepts
NoValidator == [present |-> FALSE, accepts |-> {}]

\* EnvVariable; a validator is modelled by the values it accepts
EnvVariable(name, value, required, validator, set_policy, source_layer, position) ==
    [name |-> name, value |-> value, required |-> required,
     validator |-> validator, set_policy |-> set_policy,
     source_layer |-> source_layer, position |-> position]

\* "var_name in os.environ", as the resolver tests it
InEnviron(var_name, env) == env[var_name] # Unset

\* "var_name not in os.environ", as phase 3 tests it
Absent(var_name, env) == env[var_name] = Unset

\* ordered dict: d[k].append(v), with d[k] = [] first if k is new
AppendDefinition(variable_definitions, var_name, d) ==
    LET i == IndexOf(variable_definitions, var_name, 1) IN
    IF i = 0
    THEN Append(variable_definitions, [name |-> var_name, definitions |-> <<d>>])
    ELSE [variable_definitions EXCEPT ![i].definitions = Append(@, d)]

RECURSIVE collect_layer(_, _, _, _, _)
\* the inner loop of _collect_all_variable_definitions over one layer
collect_layer(variables, j, layer_name, position, variable_definitions) ==
    IF j > Len(variables) THEN variable_definitions
    ELSE collect_layer(variables, j + 1, layer_name, position,
             AppendDefinition(variable_definitions, variables[j].name,
                 EnvVariable(variables[j].name, variables[j].value,
                     variables[j].required, variables[j].validator,
                     variables[j].set_policy, layer_name, position)))

RECURSIVE collect_all_variable_definitions(_, _, _)
\* _collect_all_variable_definitions: position = index in build_order, from 0
collect_all_variable_definitions(order, i, variable_definitions) ==
    IF i > Len(order) THEN variable_definitions
    ELSE collect_all_variable_definitions(order, i + 1,
             collect_layer(layers[order[i]].variables, 1, order[i], i - 1,
                           variable_definitions))

----------------------------------------------------------------------------
(* VariableResolver *)

MinPosition(definitions) ==
    CHOOSE m \in {definitions[i].position : i \in 1..Len(definitions)} :
        \A i \in 1..Len(definitions) : m <= definitions[i].position
MaxPosition(definitions) ==
    CHOOSE m \in {definitions[i].position : i \in 1..Len(definitions)} :
        \A i \in 1..Len(definitions) : m >= definitions[i].position

\* min(..., key=position) and max(..., key=position): the first such element
FirstWithPosition(definitions, m) ==
    definitions[CHOOSE i \in 1..Len(definitions) :
        /\ definitions[i].position = m
        /\ \A j \in 1..(i - 1) : definitions[j].position # m]

get_first_by_position(definitions) ==
    FirstWithPosition(definitions, MinPosition(definitions))

\* a resolver that takes the earliest definition where the latest is meant
get_last_by_position_earliest(definitions) ==
    FirstWithPosition(definitions, MinPosition(definitions))

get_last_by_position(definitions) ==
    FirstWithPosition(definitions, MaxPosition(definitions))

WithPolicy(definitions, policy) ==
    SelectSeq(definitions, LAMBDA d : d.set_policy = policy)

None == [name |-> "<none>"]

\* a resolver that never finds the variable in the environment
resolve_single_variable_blind(var_name, definitions, env) ==
    IF WithPolicy(definitions, "force") # <<>>
    THEN get_last_by_position(WithPolicy(definitions, "force"))
    ELSE IF WithPolicy(definitions, "immediate") # <<>>
    THEN get_first_by_position(WithPolicy(definitions, "immediate"))
    ELSE IF WithPolicy(definitions, "lazy") # <<>>
    THEN get_last_by_position(WithPolicy(definitions, "lazy"))
    ELSE None

\* _resolve_single_variable: the chosen definition, or None
resolve_single_variable(var_name, definitions, env) ==
    LET force_defs == WithPolicy(definitions, "force")
        immediate_defs == WithPolicy(definitions, "immediate")
        lazy_defs == WithPolicy(definitions, "lazy")
    IN IF force_defs # <<>> THEN get_last_by_position(force_defs)
       ELSE IF immediate_defs # <<>> /\ ~InEnviron(var_name, env)
       THEN get_first_by_position(immediate_defs)
       ELSE IF lazy_defs # <<>> /\ ~InEnviron(var_name, env)
       THEN get_last_by_position(lazy_defs)
       ELSE None

\* the list all_vars of resolve: (var_name, definitions, earliest_position)
\* for every name with at least one definition
RECURSIVE all_vars_of(_, _)
all_vars_of(variable_definitions, i) ==
    IF i > Len(variable_definitions) THEN <<>>
    ELSE LET e == variable_definitions[i]
             rest == all_vars_of(variable_definitions, i + 1)
         IN IF e.definitions # <<>>
            THEN <<[name |-> e.name, definitions |-> e.definitions,
                    earliest |-> MinPosition(e.definitions)]>> \o rest
            ELSE rest

\* list.sort(key=earliest): stable, by insertion into the sorted prefix
RECURSIVE InsertSorted(_, _)
\* an insertion that puts every item first
InsertSorted_first(sorted, x) == <<x>> \o sorted

InsertSorted(sorted, x) ==
    IF sorted = <<>> THEN <<x>>
    ELSE IF x.earliest < Head(sorted).earliest THEN <<x>> \o sorted
    ELSE <<Head(sorted)>> \o InsertSorted(Tail(sorted), x)

RECURSIVE SortByEarliest(_, _, _)
SortByEarliest(all_vars, i, sorted) ==
    IF i > Len(all_vars) THEN sorted
    ELSE SortByEarliest(all_vars, i + 1, InsertSorted(sorted, all_vars[i]))

\* ordered dict: resolved[var_name] = env_var
SetResolved(d, var_name, env_var) ==
    LET i == IndexOf(d, var_name, 1)
        e == [name |-> var_name, var |-> env_var]
    IN IF i = 0 THEN Append(d, e) ELSE [d EXCEPT ![i] = e]

\* one turn of the loop of resolve over all_vars: the resolved dict after it
resolve_one(item, d, env) ==
    LET resolved_var == resolve_single_variable(item.name, item.definitions, env)
        first_def == item.definitions[1]
    IN IF resolved_var # None THEN SetResolved(d, item.name, resolved_var)
       ELSE IF InEnviron(item.name, env)
       THEN SetResolved(d, item.name,
                EnvVariable(item.name, env[item.name], first_def.required,
                    first_def.validator, "already_set",
                    first_def.source_layer, first_def.position))
       ELSE d

\* a resolver that exports each variable as soon as it has resolved it
environ_after_resolve_eager(item, d, env) ==
    LET i == IndexOf(d, item.name, 1) IN
    IF i # 0 /\ d[i].var.set_policy # "already_set"
    THEN [env EXCEPT ![item.name] = d[i].var.value]
    ELSE env

\* os.environ after one turn of that loop (d is the resolved dict after it):
\* resolve reads os.environ and never assigns to it
environ_after_resolve(item, d, env) == env

----------------------------------------------------------------------------
(* Phase 3: _apply_resolved_variables *)

\* ordered dict: write_log[var_name] = value
SetLog(log, var_name, value) ==
    LET i == IndexOf(log, var_name, 1)
        e == [name |-> var_name, value |-> value]
    IN IF i = 0 THEN Append(log, e) ELSE [log EXCEPT ![i] = e]

\* phase 3 with the force branch leaving write_log alone
apply_one_force_unlogged(env_var, st) ==
    IF env_var.set_policy = "force"
       \/ (env_var.set_policy \in {"immediate", "lazy"}
             /\ Absent(env_var.name, st.environ))
    THEN [environ |-> [st.environ EXCEPT ![env_var.name] = env_var.value],
          write_log |-> IF env_var.set_policy = "force" THEN st.write_log
                        ELSE SetLog(st.write_log, env_var.name, env_var.value),
          wrote |-> TRUE]
    ELSE [st EXCEPT !.wrote = FALSE]

\* one turn of the loop of _apply_resolved_variables;
\* st = [environ, write_log, wrote]
apply_one(env_var, st) ==
    IF env_var.set_policy = "force"
    THEN [environ |-> [st.environ EXCEPT ![env_var.name] = env_var.value],
          write_log |-> SetLog(st.write_log, env_var.name, env_var.value),
          wrote |-> TRUE]
    ELSE IF env_var.set_policy \in {"immediate", "lazy"}
    THEN IF Absent(env_var.name, st.environ)
         THEN [environ |-> [st.environ EXCEPT ![env_var.name] = env_var.value],
               write_log |-> SetLog(st.write_log, env_var.name, env_var.value),
               wrote |-> TRUE]
         ELSE [st EXCEPT !.wrote = FALSE]
    ELSE [st EXCEPT !.wrote = FALSE]

----------------------------------------------------------------------------
(* apply_env_vars_for_build_order *)

\* validate_single_layer_env_vars(layer_name, ignore_missing_required=...):
\* False for a layer that is not loaded, for a result that counts as a
\* failure and for an unsupported X-Env-Layer field
validate_single_layer_env_vars(layer_name, env, ignore_missing_required) ==
    /\ layer_name \in DOMAIN layers
    /\ LET results == validate_env_vars(layers[layer_name], env) IN
       \A i \in 1..Len(results) :
           ~CountsAsFailure(results[i], ignore_missing_required)
    /\ check_unsupported_layer_fields(layers[layer_name]) = <<>>

\* the pre-flight loop of apply: every layer exists and validates
preflight(order, env) ==
    \A i \in 1..Len(order) :
        order[i] \in DOMAIN layers
            /\ validate_single_layer_env_vars(order[i], env, TRUE)

BuildOrders == SeqUpTo(Names, MaxOrder)

\* entry of apply_env_vars_for_build_order(build_order): the early returns,
\* the pre-flight validation, the reset of write_log, phase 1 and the sorted
\* list phase 2 walks
ApplyBegin ==
    /\ pc = "idle" /\ op = Idle
    /\ \E order \in BuildOrders :
          /\ op' = [name |-> "apply_env_vars_for_build_order", args |-> order]
          /\ entry_environ' = environ
          /\ IF order = <<>>
             THEN /\ result' = Return(TRUE)
                  /\ UNCHANGED <<write_log, pc, todo, resolved, apply_idx, env_writes>>
             ELSE IF ~preflight(order, environ)
             THEN /\ result' = Return(FALSE)
                  /\ UNCHANGED <<write_log, pc, todo, resolved, apply_idx, env_writes>>
             ELSE /\ result' = NoErr
                  /\ write_log' = <<>>
                  /\ pc' = "resolve"
                  /\ todo' = SortByEarliest(
                                 all_vars_of(collect_all_variable_definitions(
                                     order, 1, <<>>), 1), 1, <<>>)
                  /\ resolved' = <<>>
                  /\ apply_idx' = 0
                  /\ env_writes' = <<>>
    /\ UNCHANGED <<layers, environ, load_vars, out_file>>

\* phase 2: one turn of the loop of VariableResolver.resolve
ResolveStep ==
    /\ pc = "resolve" /\ todo # <<>>
    /\ LET item == Head(todo)
           d == resolve_one(item, resolved, environ)
           e == environ_after_resolve(item, d, environ)
       IN /\ resolved' = d
          /\ environ' = e
          /\ env_writes' = IF e # environ
                           THEN Append(env_writes, [name |-> item.name,
                                    phase |-> 2, unresolved |-> Len(todo) - 1])
                           ELSE env_writes
    /\ todo' = Tail(todo)
    /\ UNCHANGED <<layers, write_log, op, result, pc, entry_environ, apply_idx,
                   load_vars, out_file>>

\* resolve returns; phase 3 starts on list(resolved_variables.values())
ResolveDone ==
    /\ pc = "resolve" /\ todo = <<>>
    /\ pc' = "apply"
    /\ apply_idx' = 1
    /\ UNCHANGED <<layers, environ, write_log, op, result, entry_environ, todo,
                   resolved, env_writes, load_vars, out_file>>

\* phase 3: one turn of the loop of _apply_resolved_variables
ApplyStep ==
    /\ pc = "apply" /\ apply_idx <= Len(resolved)
    /\ LET st == apply_one(resolved[apply_idx].var,
                     [environ |-> environ, write_log |-> write_log, wrote |-> FALSE])
       IN /\ environ' = st.environ
          /\ write_log' = st.write_log
          /\ env_writes' = IF st.wrote
                           THEN Append(env_writes, [name |-> resolved[apply_idx].var.name,
                                    phase |-> 3, unresolved |-> Len(todo)])
                           ELSE env_writes
    /\ apply_idx' = apply_idx + 1
    /\ UNCHANGED <<layers, op, result, pc, entry_environ, todo, resolved,
                   load_vars, out_file>>

\* "Environment variables applied successfully": apply returns True
ApplyDone ==
    /\ pc = "apply" /\ apply_idx > Len(resolved)
    /\ pc' = "idle"
    /\ result' = Return(TRUE)
    /\ UNCHANGED <<layers, environ, write_log, op, entry_environ, todo, resolved,
                   apply_idx, env_writes, load_vars, out_file>>

NextApply == ApplyBegin \/ ResolveStep \/ ResolveDone \/ ApplyStep \/ ApplyDone

SetPolicies == {"force", "immediate", "lazy", "skip"}
Undeclared == "<undeclared>"

\* the default a layer gives the variables it declares
DefaultOf(layer_name) == IF layer_name = "A" THEN "a" ELSE "b"

\* the declaration of var_name in a layer, if it declares it
Declaration(layer_name, var_name, policy) ==
    IF policy = Undeclared THEN <<>>
    ELSE <<[name |-> var_name, value |-> DefaultOf(layer_name), required |-> FALSE,
            validator |-> NoValidator, set_policy |-> policy]>>

\* MetadataContainer.variables of a layer: V and W, each declared with some
\* set policy or not at all
VarLists(layer_name) ==
    {Declaration(layer_name, "V", pv) \o Declaration(layer_name, "W", pw) :
         pv \in SetPolicies \cup {Undeclared}, pw \in SetPolicies \cup {Undeclared}}

\* A and B loaded (C is a name that is not loaded), without dependencies
ApplyLayerSets ==
    {("A" :> EnvLayer(<<>>, <<>>, <<>>, vA)) @@ ("B" :> EnvLayer(<<>>, <<>>, <<>>, vB)) :
         vA \in VarLists("A"), vB \in VarLists("B")}

\* the environment before the apply: each variable unset or set by the user
Environs == [VarNames -> {Unset, "y"}]

InitApply == InitManager(ApplyLayerSets, Environs)

SpecApply == InitApply /\ [][NextApply]_vars

----------------------------------------------------------------------------
(* process_layers, with the apply it delegates to taken as one call *)

RECURSIVE resolve(_, _)
\* VariableResolver.resolve: the loop over the sorted all_vars;
\* st = [resolved, environ]
resolve(all_vars, st) ==
    IF all_vars = <<>> THEN st
    ELSE LET d == resolve_one(Head(all_vars), st.resolved, st.environ) IN
         resolve(Tail(all_vars),
             [resolved |-> d,
              environ |-> environ_after_resolve(Head(all_vars), d, st.environ)])

RECURSIVE apply_resolved_variables(_, _, _)
\* _apply_resolved_variables: the loop over the resolved variables
apply_resolved_variables(resolved_variables, i, st) ==
    IF i > Len(resolved_variables) THEN st
    ELSE apply_resolved_variables(resolved_variables, i + 1,
             apply_one(resolved_variables[i].var, st))

\* apply_env_vars_for_build_order(build_order) from os.environ = env and
\* self.write_log = log: what it returns and what it leaves of both
apply_env_vars_for_build_order(build_order, env, log) ==
    IF build_order = <<>>
    THEN [ret |-> TRUE, environ |-> env, write_log |-> log]
    ELSE IF ~preflight(build_order, env)
    THEN [ret |-> FALSE, environ |-> env, write_log |-> log]
    ELSE LET variable_definitions ==
                 collect_all_variable_definitions(build_order, 1, <<>>)
             phase2 == resolve(SortByEarliest(all_vars_of(variable_definitions, 1),
                                              1, <<>>),
                               [resolved |-> <<>>, environ |-> env])
             phase3 == apply_resolved_variables(phase2.resolved, 1,
                           [environ |-> phase2.environ, write_log |-> <<>>,
                            wrote |-> FALSE])
         IN [ret |-> TRUE, environ |-> phase3.environ,
             write_log |-> phase3.write_log]

NoName == "<None>"

\* resolve_layer_name: a loaded layer name, or the path of a loaded file
resolve_layer_name(layer_identifier) ==
    IF layer_identifier \in DOMAIN layers THEN layer_identifier
    ELSE IF \E i \in 1..Len(layer_files) : layer_files[i].file = layer_identifier
    THEN layer_files[CHOOSE i \in 1..Len(layer_files) :
             /\ layer_files[i].file = layer_identifier
             /\ \A j \in 1..(i - 1) : layer_files[j].file # layer_identifier].name
    ELSE NoName

\* process_layers(layer_ids, operation, write_out=...) from the state
\* st = [environ, write_log, out_file]: its outcome and the state it leaves
\* (the open of write_out is taken to succeed)
process_layers(layer_ids, operation, write_out, st) ==
    LET resolved_layers ==
            [i \in 1..Len(layer_ids) |-> resolve_layer_name(layer_ids[i])]
        order == get_build_order(resolved_layers)
        leave(outcome) == [outcome |-> outcome, environ |-> st.environ,
                           write_log |-> st.write_log, out_file |-> st.out_file]
    IN IF \E i \in 1..Len(layer_ids) : resolved_layers[i] = NoName
       THEN leave(Return(FALSE))
       ELSE IF order.kind = "ValueError" THEN leave(Return(FALSE))
       ELSE IF order.kind # "return" THEN leave(order)
       ELSE IF operation = "apply"
       THEN LET a == apply_env_vars_for_build_order(order.value, st.environ,
                                                    st.write_log)
                failed_layers ==
                    {i \in 1..Len(resolved_layers) :
                         ~validate_single_layer_env_vars(resolved_layers[i],
                                                         a.environ, FALSE)}
            IN [outcome |-> Return(a.ret /\ failed_layers = {}),
                environ |-> a.environ,
                write_log |-> a.write_log,
                out_file |-> IF /\ a.ret /\ failed_layers = {}
                                /\ write_out /\ a.write_log # <<>>
                             THEN a.write_log ELSE st.out_file]
       ELSE IF operation = "validate"
       THEN leave(Return(\A i \in 1..Len(resolved_layers) :
                      validate_single_layer_env_vars(resolved_layers[i],
                                                     st.environ, FALSE)))
       ELSE leave(Return(TRUE))

\* the identifiers, build orders and operations the calls are made with
LayerIds == {<<>>, <<"A">>, <<"B">>, <<"A", "B">>, <<"C">>, <<"f2">>}
CalledOrders == {<<>>, <<"A">>, <<"B">>, <<"B", "A">>, <<"A", "B">>, <<"C">>}
Operations == {"apply", "validate", "check"}

\* a call of process_layers(layer_ids, operation, write_out=...)
ProcessLayers ==
    /\ pc = "idle" /\ op = Idle
    /\ \E layer_ids \in LayerIds, operation \in Operations, write_out \in BOOLEAN :
          /\ write_out => operation = "apply"
          /\ LET r == process_layers(layer_ids, operation, write_out,
                          [environ |-> environ, write_log |-> write_log,
                           out_file |-> out_file])
             IN /\ op' = [name |-> "process_layers",
                          args |-> <<layer_ids, operation, write_out>>]
                /\ result' = r.outcome
                /\ environ' = r.environ
                /\ write_log' = r.write_log
                /\ out_file' = r.out_file
    /\ entry_environ' = environ
    /\ UNCHANGED <<layers, pc, todo, resolved, apply_idx, env_writes, load_vars>>

\* a call of apply_env_vars_for_build_order(build_order)
ApplyEnvVars ==
    /\ pc = "idle" /\ op = Idle
    /\ \E build_order \in CalledOrders :
          LET a == apply_env_vars_for_build_order(build_order, environ, write_log)
          IN /\ op' = [name |-> "apply_env_vars_for_build_order",
                       args |-> build_order]
             /\ result' = Return(a.ret)
             /\ environ' = a.environ
             /\ write_log' = a.write_log
    /\ entry_environ' = environ
    /\ UNCHANGED <<layers, pc, todo, resolved, apply_idx, env_writes, load_vars,
                   out_file>>

\* a call of validate_single_layer_env_vars(layer_name,
\* ignore_missing_required=...)
ValidateSingleLayer ==
    /\ pc = "idle" /\ op = Idle
    /\ \E layer_name \in Names, ignore_missing_required \in BOOLEAN :
          /\ op' = [name |-> "validate_single_layer_env_vars",
                    args |-> <<layer_name, ignore_missing_required>>]
          /\ result' = Return(validate_single_layer_env_vars(layer_name, environ,
                                  ignore_missing_required))
    /\ entry_environ' = environ
    /\ UNCHANGED <<layers, environ, write_log, pc, todo, resolved, apply_idx,
                   env_writes, load_vars, out_file>>

NextProcess == ProcessLayers \/ ApplyEnvVars \/ ValidateSingleLayer \/ ReturnToCaller

\* the variable V as layer A may declare it
VarOfA ==
    {<<>>,
     <<[name |-> "V", value |-> "a", required |-> FALSE,
        validator |-> NoValidator, set_policy |-> "immediate"]>>,
     <<[name |-> "V", value |-> "a", required |-> FALSE,
        validator |-> NoValidator, set_policy |-> "force"]>>,
     <<[name |-> "V", value |-> "a", required |-> FALSE,
        validator |-> [present |-> TRUE, accepts |-> {"a"}],
        set_policy |-> "lazy"]>>}

\* the variable V as layer B may declare it
VarOfB ==
    {<<>>,
     <<[name |-> "V", value |-> "b", required |-> TRUE,
        validator |-> NoValidator, set_policy |-> "skip"]>>,
     <<[name |-> "V", value |-> "b", required |-> FALSE,
        validator |-> [present |-> TRUE, accepts |-> {"b"}],
        set_policy |-> "immediate"]>>}

\* X-Env-VarRequires and X-Env-VarOptional of layer B
RequiredOfB ==
    {<<>>, <<[name |-> "V", rule |-> UnsupportedRule]>>,
     <<[name |-> "V", rule |-> Rule({"a"})]>>}
OptionalOfB == {<<>>, <<[name |-> "W", rule |-> Rule({"a"})]>>}

\* A and B loaded (C is a name that is not loaded); A may require B
ProcessLayerSets ==
    {("A" :> EnvLayer(dA, <<>>, <<>>, vA))
        @@ ("B" :> WithFields(EnvLayer(<<>>, <<>>, <<>>, vB),
                              TRUE, <<>>, <<>>, <<>>, rB, oB)) :
         dA \in {<<>>, <<"B">>}, vA \in VarOfA, vB \in VarOfB,
         rB \in RequiredOfB, oB \in OptionalOfB}

\* a manager constructed in the environment the calls start from: every
\* loaded layer has passed the lint of load_layers in it
InitProcess ==
    /\ InitManager(ProcessLayerSets, Environs)
    /\ \A n \in DOMAIN layers : lint_metadata_syntax(layers[n], environ) = <<>>

SpecProcess == InitProcess /\ [][NextProcess]_vars

----------------------------------------------------------------------------
(* Validators: parse_validator on "int:MIN-MAX" and IntegerValidator       *)
(* A Python str is the sequence of its characters.                         *)

Digits == <<"0", "1", "2", "3", "4", "5", "6", "7", "8", "9">>

RECURSIVE str_digits(_)
str_digits(n) ==
    IF n < 10 THEN <<Digits[n + 1]>>
    ELSE str_digits(n \div 10) \o <<Digits[(n % 10) + 1]>>

\* str(n), and an int in an f-string
str(n) == IF n < 0 THEN <<"-">> \o str_digits(-n) ELSE str_digits(n)

RECURSIVE split(_, _, _)
\* text.split(sep), cur being the piece under way: the pieces between the
\* occurrences of sep, empty pieces kept
split(text, sep, cur) ==
    IF text = <<>> THEN <<cur>>
    ELSE IF Head(text) = sep THEN <<cur>> \o split(Tail(text), sep, <<>>)
    ELSE split(Tail(text), sep, Append(cur, Head(text)))

IsDigit(c) == \E d \in 1..10 : Digits[d] = c
DigitValue(c) == (CHOOSE d \in 1..10 : Digits[d] = c) - 1

RECURSIVE digits_value(_, _)
digits_value(text, acc) ==
    IF text = <<>> THEN acc
    ELSE digits_value(Tail(text), 10 * acc + DigitValue(Head(text)))

\* int(text) for a text without blanks and underscores: an optional sign and
\* one digit or more, ValueError for anything else (the empty text included)
int(text) ==
    LET signed == text # <<>> /\ Head(text) \in {"-", "+"}
        body == IF signed THEN Tail(text) ELSE text
    IN IF body = <<>> \/ \E i \in 1..Len(body) : ~IsDigit(body[i])
       THEN ValueError(<<"invalid literal for int()">>)
       ELSE Return(IF signed /\ Head(text) = "-"
                   THEN 0 - digits_value(body, 0) ELSE digits_value(body, 0))

RECURSIVE lstrip(_)
lstrip(text) ==
    IF text # <<>> /\ Head(text) = " " THEN lstrip(Tail(text)) ELSE text

RECURSIVE rstrip(_)
rstrip(text) ==
    IF text # <<>> /\ text[Len(text)] = " "
    THEN rstrip(SubSeq(text, 1, Len(text) - 1)) ELSE text

strip(text) == rstrip(lstrip(text))

startswith(text, prefix) ==
    Len(text) >= Len(prefix) /\ SubSeq(text, 1, Len(prefix)) = prefix

\* min_val / max_val of an IntegerValidator: None, or an int
NoBound == <<>>
Bound(n) == <<n>>

IntegerValidator(min_val, max_val) ==
    [class |-> "IntegerValidator", min_val |-> min_val, max_val |-> max_val]
\* a validator of one of the other classes
OtherValidator(class) == [class |-> class, min_val |-> NoBound, max_val |-> NoBound]

\* the rule prefix "int:"
RuleIntRange == <<"i", "n", "t", ":">>

\* parse_validator(rule_str): the validator, or ValueError. (A regex rule
\* is taken to compile.)
parse_validator(rule_str) ==
    LET RuleString == <<"s", "t", "r", "i", "n", "g">>
        RuleStringOrEmpty ==
            RuleString \o <<"-", "o", "r", "-", "e", "m", "p", "t", "y">>
        RuleStringOrUnset ==
            RuleString \o <<"-", "o", "r", "-", "u", "n", "s", "e", "t">>
        RuleBool == <<"b", "o", "o", "l">>
        RuleInt == <<"i", "n", "t">>
        RuleRegex == <<"r", "e", "g", "e", "x", ":">>
        RuleKeywords == <<"k", "e", "y", "w", "o", "r", "d", "s", ":">>
        RuleSize == <<"s", "i", "z", "e">>
        rule == strip(rule_str)
    IN
    IF rule_str = <<>> THEN ValueError(<<"Empty rule string">>)
    ELSE IF rule \in {RuleString, RuleStringOrEmpty, RuleStringOrUnset}
    THEN Return(OtherValidator("StringValidator"))
    ELSE IF rule = RuleBool THEN Return(OtherValidator("BooleanValidator"))
    ELSE IF rule = RuleInt THEN Return(IntegerValidator(NoBound, NoBound))
    ELSE IF startswith(rule, RuleIntRange)
    THEN LET range_str == SubSeq(rule, Len(RuleIntRange) + 1, Len(rule))
             parts == split(range_str, "-", <<>>)
         IN IF Len(parts) # 2
            THEN ValueError(<<"Invalid int range format">>)
            ELSE IF int(parts[1]).kind # "return" \/ int(parts[2]).kind # "return"
            THEN ValueError(<<"Invalid int range format">>)
            ELSE Return(IntegerValidator(Bound(int(parts[1]).value),
                                         Bound(int(parts[2]).value)))
    ELSE IF startswith(rule, RuleRegex) THEN Return(OtherValidator("RegexValidator"))
    ELSE IF startswith(rule, RuleKeywords) THEN Return(OtherValidator("EnumValidator"))
    ELSE IF rule = RuleSize THEN Return(OtherValidator("SizeValidator"))
    ELSE IF \E i \in 1..Len(rule) : rule[i] = ","
    THEN Return(OtherValidator("EnumValidator"))
    ELSE ValueError(<<"Single value must use trailing comma">>)

\* a value that is None
NoValue == <<"<None>">>

\* IntegerValidator.validate(value): the list of error messages, each the
\* text that follows the value and the bound it ends with (none: <<>>)
IntegerValidator_validate(validator, value) ==
    IF value = NoValue
    THEN <<[text |-> "Value cannot be None", value |-> <<>>, bound |-> <<>>]>>
    ELSE LET val == int(value) IN
    IF val.kind # "return"
    THEN <<[text |-> "is not a valid integer", value |-> value, bound |-> <<>>]>>
    ELSE IF validator.min_val # NoBound /\ val.value < validator.min_val[1]
    THEN <<[text |-> "is below minimum", value |-> str(val.value),
            bound |-> str(validator.min_val[1])]>>
    ELSE IF validator.max_val # NoBound /\ val.value > validator.max_val[1]
    THEN <<[text |-> "is above maximum", value |-> str(val.value),
            bound |-> str(validator.max_val[1])]>>
    ELSE <<>>

\* the integers the rules and the values are written from
MaxInt == 11
IntRange == (0 - MaxInt)..MaxInt

\* the values handed to validate: the integers as str writes them, a text
\* that is no integer, the empty text and None
Values == {str(v) : v \in IntRange} \cup {<<"x">>, <<>>, NoValue}

\* parse_validator(f"int:{MIN}-{MAX}").validate(value)
ValidateIntRange ==
    /\ pc = "idle" /\ op = Idle
    /\ \E MIN \in IntRange, MAX \in IntRange, value \in Values :
          LET validator == parse_validator(RuleIntRange \o str(MIN) \o <<"-">>
                                               \o str(MAX))
          IN /\ op' = [name |-> "parse_validator.validate",
                       args |-> <<MIN, MAX, value>>]
             /\ result' = IF validator.kind # "return" THEN validator
                          ELSE Return(IntegerValidator_validate(validator.value,
                                                                value))
    /\ UNCHANGED <<layers, environ, write_log, pc, entry_environ, todo, resolved,
                   apply_idx, env_writes, load_vars, out_file>>

NextValidator == ValidateIntRange \/ ReturnToCaller

\* no layer matters to a validator
InitValidator == InitManager({EmptyDict}, {UnsetEnviron})

SpecValidator == InitValidator /\ [][NextValidator]_vars

----------------------------------------------------------------------------
(* Placeholders: MetadataContainer._substitute_placeholders                *)
(* A field value is a sequence of pieces of text: the characters \, $, {   *)
(* and }, identifiers in capitals (one piece each), the escape token, and  *)
(* pieces of other text.                                                   *)

ESCAPE_TOKEN == "<<LITERAL_DOLLAR_BRACE>>"

\* pieces that [A-Z][A-Z0-9_]* matches
Identifiers == {"FILENAME", "DIRECTORY", "OTHER"}

\* _build_placeholders for the file /d/x.yaml
build_placeholders ==
    [key \in {"FILENAME", "DIRECTORY", "FILEPATH"} |->
        IF key = "FILENAME" THEN <<"x.yaml">>
        ELSE IF key = "DIRECTORY" THEN <<"/d">> ELSE <<"/d/x.yaml">>]

\* old in text
contains(text, old) ==
    \E i \in 1..(Len(text) - Len(old) + 1) :
        SubSeq(text, i, i + Len(old) - 1) = old

RECURSIVE replace(_, _, _)
\* text.replace(old, new): the occurrences of old from left to right
replace(text, old, new) ==
    IF text = <<>> THEN <<>>
    ELSE IF startswith(text, old)
    THEN new \o replace(SubSeq(text, Len(old) + 1, Len(text)), old, new)
    ELSE <<Head(text)>> \o replace(Tail(text), old, new)

RECURSIVE identifier_run(_)
\* the number of pieces at the head of text that the identifier of the
\* pattern takes
identifier_run(text) ==
    IF text # <<>> /\ Head(text) \in Identifiers
    THEN 1 + identifier_run(Tail(text)) ELSE 0

\* _repl: placeholders.get(key, match.group(0)); an identifier of more than
\* one piece is no key
repl(match, placeholders) ==
    IF Len(match) = 4 /\ match[3] \in DOMAIN placeholders
    THEN placeholders[match[3]] ELSE match

RECURSIVE re_sub(_, _)
\* re.sub(r"\$\{([A-Z][A-Z0-9_]*)\}", _repl, text)
re_sub(text, placeholders) ==
    IF text = <<>> THEN <<>>
    ELSE LET k == IF startswith(text, <<"$", "{">>)
                  THEN identifier_run(SubSeq(text, 3, Len(text))) ELSE 0
         IN IF k > 0 /\ Len(text) >= k + 3 /\ text[k + 3] = "}"
            THEN repl(SubSeq(text, 1, k + 3), placeholders)
                     \o re_sub(SubSeq(text, k + 4, Len(text)), placeholders)
            ELSE <<Head(text)>> \o re_sub(Tail(text), placeholders)

\* an end of the substitution that leaves the escape token in the text
unescape_kept(text) == text

\* "substituted.replace(ESCAPE_TOKEN, "${")"
unescape(text) == replace(text, <<ESCAPE_TOKEN>>, <<"$", "{">>)

\* _substitute_placeholders(text, placeholders)
substitute_placeholders(text, placeholders) ==
    IF ~contains(text, <<"$", "{">>) THEN text
    ELSE LET text_escaped == replace(text, <<"\\", "$", "{">>, <<ESCAPE_TOKEN>>)
         IN unescape(re_sub(text_escaped, placeholders))

\* the field values of a metadata file
MaxText == 5
Pieces == {"\\", "$", "{", "}", "x", ESCAPE_TOKEN} \cup Identifiers
Texts == SeqUpTo(Pieces, MaxText)

\* apply_placeholders on one field of the file
SubstitutePlaceholders ==
    /\ pc = "idle" /\ op = Idle
    /\ \E text \in Texts :
          /\ op' = [name |-> "_substitute_placeholders", args |-> text]
          /\ result' = Return(substitute_placeholders(text, build_placeholders))
    /\ UNCHANGED <<layers, environ, write_log, pc, entry_environ, todo, resolved,
                   apply_idx, env_writes, load_vars, out_file>>

\* the substitution applied to the value it has just returned
SubstituteAgain ==
    /\ pc = "idle" /\ op.name = "_substitute_placeholders"
    /\ op' = [name |-> "_substitute_placeholders", args |-> result.value]
    /\ result' = Return(substitute_placeholders(result.value, build_placeholders))
    /\ UNCHANGED <<layers, environ, write_log, pc, entry_environ, todo, resolved,
                   apply_idx, env_writes, load_vars, out_file>>

NextPlaceholder == SubstitutePlaceholders \/ SubstituteAgain \/ ReturnToCaller

InitPlaceholder == InitManager({EmptyDict}, {UnsetEnviron})

SpecPlaceholder == InitPlaceholder /\ [][NextPlaceholder]_vars

----------------------------------------------------------------------------
(* Notions the properties of the dependency resolver are stated with *)

Loaded == DOMAIN layers

\* the declared required dependencies of a name (none if it is not loaded)
Requires(n) == IF n \in Loaded THEN Range(layers[n].deps) ELSE {}

\* the names reachable from the set S through required dependencies
RECURSIVE ReachFrom(_)
ReachFrom(S) ==
    LET T == S \cup UNION {Requires(n) : n \in S} IN
    IF T = S THEN S ELSE ReachFrom(T)

\* n lies on a required-dependency cycle
OnCycle(n) == n \in ReachFrom(Requires(n))

IsBuildOrderCall == op.name = "get_build_order"
Targets == Range(op.args)
Returned == result.kind = "return"
Raised(what) == result.kind = "ValueError" /\ result.msg[1] = what

\* the order get_build_order has built when it reaches scope validation
OrderBuilt ==
    /\ IsBuildOrderCall
    /\ ReachFrom(Targets) \subseteq Loaded
    /\ \A n \in ReachFrom(Targets) : ~OnCycle(n)
ComputedOrder ==
    add_targets(op.args, 1,
        [build_order |-> <<>>, processed |-> {}, err |-> NoErr]).build_order

Provides(n) == Range(layers[n].provides)
RequiresProvider(n) == Range(layers[n].requires_provider)
ListsTwice(n) == ~IsInjective(layers[n].provides)

----------------------------------------------------------------------------
(* C1: a list returned by get_build_order holds every required dependency  *)
(* of each of its layers at a smaller index than the layer, and holds no   *)
(* layer name twice.                                                       *)
C1_DepsFirstNoDuplicates ==
    (IsBuildOrderCall /\ Returned) =>
        LET o == result.value IN
        /\ IsInjective(o)
        /\ \A i \in 1..Len(o) : \A d \in Requires(o[i]) :
              \E j \in 1..(i - 1) : o[j] = d

\* a returned order of three layers, one of which has two required
\* dependencies and another one required dependency
C1_Witness ==
    /\ IsBuildOrderCall /\ Returned
    /\ Len(result.value) = 3
    /\ \E n \in Range(result.value) : Cardinality(Requires(n)) = 2
    /\ \E n \in Range(result.value) : Cardinality(Requires(n)) = 1

----------------------------------------------------------------------------
(* C11: the names in a list returned by get_build_order are exactly the    *)
(* targets together with every layer reachable from a target through       *)
(* required dependencies: every target is in the list and no layer outside *)
(* that closure is.                                                        *)
C11_OrderIsClosure ==
    (IsBuildOrderCall /\ Returned) => Range(result.value) = ReachFrom(Targets)

\* two targets returned together with a layer that is no target but a
\* required dependency of one
C11_Witness ==
    /\ IsBuildOrderCall /\ Returned
    /\ Cardinality(Targets) = 2
    /\ Range(result.value) \ Targets # {}

----------------------------------------------------------------------------
(* C8: get_build_order raises "Missing required dependency: <name>"        *)
(* exactly when a target, or a layer reachable from a target through       *)
(* required dependencies, is not loaded (also when the dependencies have a *)
(* cycle, which order construction would not survive); the name in the     *)
(* message is such a layer; and the pre-validation ends on every graph     *)
(* without running into the recursion limit.                               *)
C8_MissingIffUnloadedReachable ==
    IsBuildOrderCall =>
        /\ Raised("Missing required dependency")
              <=> ~(ReachFrom(Targets) \subseteq Loaded)
        /\ Raised("Missing required dependency")
              => result.msg[2] \in ReachFrom(Targets) \ Loaded
        /\ check_missing_targets(op.args, 1) # RecursionError

\* the missing-dependency error for targets whose dependencies have a cycle
C8_Witness ==
    /\ IsBuildOrderCall
    /\ Raised("Missing required dependency")
    /\ result.msg[2] \notin Targets
    /\ \E n \in ReachFrom(Targets) : OnCycle(n)

----------------------------------------------------------------------------
(* C9: _check_circular_dependencies(L) returns on every graph; its list is *)
(* non-empty exactly when a required-dependency cycle is reachable from L  *)
(* through loaded layers; a non-empty list starts at L, each consecutive   *)
(* pair is a declared required dependency, and its last element occurs     *)
(* earlier in the list.                                                    *)
C9_CycleChain ==
    op.name = "_check_circular_dependencies" =>
        LET L == op.args[1]
            c == result.value
        IN /\ Returned
           /\ c # <<>> <=> \E n \in ReachFrom({L}) : OnCycle(n)
           /\ c # <<>> =>
                 /\ c[1] = L
                 /\ \A i \in 1..(Len(c) - 1) : c[i + 1] \in Requires(c[i])
                 /\ \E i \in 1..(Len(c) - 1) : c[i] = c[Len(c)]

\* a reported chain whose cycle does not pass through L
C9_Witness ==
    /\ op.name = "_check_circular_dependencies"
    /\ Returned /\ Len(result.value) = 4
    /\ result.value[4] # op.args[1]

----------------------------------------------------------------------------
(* C10: when all layers reachable from the targets are loaded and one of   *)
(* them lies on a required-dependency cycle, get_build_order does not      *)
(* return a build order (the recursion of add_layer_and_deps does not end: *)
(* the interpreter raises RecursionError).                                 *)
C10_CycleNeverReturns ==
    (/\ IsBuildOrderCall
     /\ ReachFrom(Targets) \subseteq Loaded
     /\ \E n \in ReachFrom(Targets) : OnCycle(n))
        => ~Returned /\ result = RecursionError

\* the cycle A -> B -> A below a target
C10_Witness ==
    /\ IsBuildOrderCall
    /\ ReachFrom(Targets) \subseteq Loaded
    /\ "A" \in Targets
    /\ "B" \in Requires("A") /\ "A" \in Requires("B")
    /\ result = RecursionError

----------------------------------------------------------------------------
(* Provider scope of the computed order *)

ProvidedInOrder(o) == UNION {Provides(n) : n \in Range(o)}

\* two layers of the order declare the same provides token
SharedProvider(o) ==
    \E i, j \in 1..Len(o) : i < j /\ Provides(o[i]) \cap Provides(o[j]) # {}

\* the scope conflict check does not pass: a token is declared twice in the order
ScopeConflict(o) == SharedProvider(o) \/ \E n \in Range(o) : ListsTwice(n)

\* a layer of the order requires a provider that no layer of the order provides
UnsatisfiedInOrder(o) ==
    \E n \in Range(o) : ~(RequiresProvider(n) \subseteq ProvidedInOrder(o))

----------------------------------------------------------------------------
----------------------------------------------------------------------------
(* C7 as stated: get_build_order raises the unsatisfied-provider error if  *)
(* and only if some layer of the computed order requires a provider that   *)
(* no layer of that order provides. (Stated here for the orders in which  *)
(* no layer lists a provides token twice, so that a violation shows two    *)
(* different layers in conflict.)                                          *)
C7_UnsatisfiedIffMissingProvider ==
    (OrderBuilt /\ \A n \in Range(ComputedOrder) : ~ListsTwice(n)) =>
        (Raised("requires provider") <=> UnsatisfiedInOrder(ComputedOrder))

(* C7 amended: get_build_order raises the unsatisfied-provider error if    *)
(* and only if the computed order passes the provider-conflict check       *)
(* (which runs first and raises its own error) and some layer of the order *)
(* requires a provider that no layer of that order provides; the error     *)
(* names such a layer and token, and a provider that is loaded but outside *)
(* the order does not satisfy the requirement.                             *)
C7_UnsatisfiedUnlessConflict ==
    OrderBuilt =>
        LET o == ComputedOrder IN
        /\ Raised("requires provider")
              <=> (UnsatisfiedInOrder(o) /\ ~ScopeConflict(o))
        /\ Raised("requires provider") =>
              /\ result.msg[2] \in Range(o)
              /\ result.msg[3] \in RequiresProvider(result.msg[2])
              /\ result.msg[3] \notin ProvidedInOrder(o)

\* the error is raised although a loaded layer outside the order provides
\* the token
C7_Witness ==
    /\ OrderBuilt
    /\ Raised("requires provider")
    /\ \E n \in Loaded \ Range(ComputedOrder) : result.msg[3] \in Provides(n)

----------------------------------------------------------------------------
(* Notions the properties of construction are stated with *)

\* __init__ has returned a manager
Constructed == pc \notin {"load", "failed"}

\* the loaded layer names in load order
LoadOrder == [i \in 1..Len(layer_files) |-> layer_files[i].name]

ProvidersOf(token) == {n \in Loaded : token \in Provides(n)}

\* the first layer in load order that provides the token
FirstProvider(token) ==
    LoadOrder[CHOOSE i \in 1..Len(LoadOrder) :
                 /\ token \in Provides(LoadOrder[i])
                 /\ \A j \in 1..(i - 1) : token \notin Provides(LoadOrder[j])]

----------------------------------------------------------------------------
(* C12: in a constructed manager, provider_index maps every token that a   *)
(* loaded layer provides to the first layer in load order that provides    *)
(* it; provider_conflicts has an entry for a token exactly when two or     *)
(* more different loaded layers provide it, and the entry holds every such *)
(* layer, the one in provider_index included; and construction fails for a *)
(* duplicate layer name only, never for a recorded conflict.               *)
C12_FirstProviderWins ==
    /\ Constructed =>
          /\ \A token \in Tokens :
                ProvidersOf(token) # {} =>
                    /\ token \in DOMAIN provider_index
                    /\ provider_index[token] = FirstProvider(token)
          /\ \A token \in Tokens :
                token \in DOMAIN provider_conflicts
                    <=> Cardinality(ProvidersOf(token)) >= 2
          /\ \A token \in DOMAIN provider_conflicts :
                /\ ProvidersOf(token) \subseteq provider_conflicts[token]
                /\ provider_index[token] \in provider_conflicts[token]
    /\ pc = "failed" => Raised("Duplicate layer name")

\* three layers provide X, loaded in an order that does not start with A
C12_Witness ==
    /\ Constructed
    /\ ProvidersOf("X") = {"A", "B", "C"}
    /\ provider_index["X"] # "A"
    /\ provider_conflicts["X"] = {"A", "B", "C"}

----------------------------------------------------------------------------
(* Notions the properties of variable resolution are stated with *)

IsApplyCall == op.name = "apply_env_vars_for_build_order"

\* phase 2 of the apply under way has resolved every variable
Phase2Over ==
    /\ IsApplyCall /\ op.args # <<>>
    /\ pc = "apply" \/ (pc = "idle" /\ result = Return(TRUE))

\* the apply under way has returned True after its three phases
Applied == IsApplyCall /\ op.args # <<>> /\ pc = "idle" /\ result = Return(TRUE)

\* the definitions of var_name over the build order of the apply: one per
\* place of the order whose layer declares it, with that place as position
Definitions(var_name) ==
    {[position |-> i - 1, source_layer |-> op.args[i],
      set_policy |-> layers[op.args[i]].variables[j].set_policy,
      value |-> layers[op.args[i]].variables[j].value] :
         <<i, j>> \in {ij \in (1..Len(op.args)) \X (1..Cardinality(VarNames)) :
                         /\ op.args[ij[1]] \in Loaded
                         /\ ij[2] <= Len(layers[op.args[ij[1]]].variables)
                         /\ layers[op.args[ij[1]]].variables[ij[2]].name = var_name}}

Of(D, policy) == {d \in D : d.set_policy = policy}
Latest(D) == CHOOSE d \in D : \A e \in D : e.position <= d.position
Earliest(D) == CHOOSE d \in D : \A e \in D : e.position >= d.position

WasSet(var_name) == entry_environ[var_name] # Unset

\* what the resolved dict holds for var_name, as a set (empty: unresolved)
ResolvedFor(var_name) ==
    {[position |-> resolved[i].var.position,
      source_layer |-> resolved[i].var.source_layer,
      set_policy |-> resolved[i].var.set_policy,
      value |-> resolved[i].var.value] :
         i \in {k \in 1..Len(resolved) : resolved[k].name = var_name}}

----------------------------------------------------------------------------
(* C2: for each variable with definitions over the build order, resolution *)
(* picks the force definition with the largest position if there is one    *)
(* (set in the environment or not); otherwise, if the variable was unset,  *)
(* the immediate definition with the smallest position if there is one,    *)
(* otherwise the lazy definition with the largest position if there is     *)
(* one; and leaves an unset variable with only skip definitions            *)
(* unresolved.                                                             *)
C2_PolicyPrecedence ==
    Phase2Over =>
        \A var_name \in VarNames :
            LET D == Definitions(var_name) IN
            D # {} =>
                IF Of(D, "force") # {}
                THEN ResolvedFor(var_name) = {Latest(Of(D, "force"))}
                ELSE IF ~WasSet(var_name) /\ Of(D, "immediate") # {}
                THEN ResolvedFor(var_name) = {Earliest(Of(D, "immediate"))}
                ELSE IF ~WasSet(var_name) /\ Of(D, "lazy") # {}
                THEN ResolvedFor(var_name) = {Latest(Of(D, "lazy"))}
                ELSE ~WasSet(var_name) => ResolvedFor(var_name) = {}

\* the build order A, B with V force in both resolves V to B's "b" although V
\* was set, and with W immediate in both resolves the unset W to A's "a"
C2_Witness ==
    /\ Phase2Over /\ op.args = <<"A", "B">>
    /\ Cardinality(Of(Definitions("V"), "force")) = 2
    /\ Cardinality(Of(Definitions("W"), "immediate")) = 2
    /\ WasSet("V") /\ ~WasSet("W")
    /\ \E r \in ResolvedFor("V") : r.value = "b" /\ r.position = 1
    /\ \E r \in ResolvedFor("W") : r.value = "a" /\ r.position = 0

----------------------------------------------------------------------------
(* C3: a variable that is set when apply is entered and has no force       *)
(* definition over the build order keeps its value throughout the apply,   *)
(* and, if the build order defines it, its resolved entry has policy       *)
(* already_set and the value it had.                                       *)
C3_AlreadySetKept ==
    IsApplyCall =>
        \A var_name \in VarNames :
            (WasSet(var_name) /\ Of(Definitions(var_name), "force") = {}) =>
                /\ environ[var_name] = entry_environ[var_name]
                /\ (Phase2Over /\ Definitions(var_name) # {}) =>
                      /\ ResolvedFor(var_name) # {}
                      /\ \A r \in ResolvedFor(var_name) :
                            /\ r.set_policy = "already_set"
                            /\ r.value = entry_environ[var_name]

\* V set to "y", declared lazy by one layer and immediate by the other,
\* after a completed apply
C3_Witness ==
    /\ Applied /\ WasSet("V")
    /\ Of(Definitions("V"), "lazy") # {} /\ Of(Definitions("V"), "immediate") # {}
    /\ Of(Definitions("V"), "force") = {}
    /\ environ["V"] = "y" /\ write_log # <<>>

----------------------------------------------------------------------------
(* C4: within one apply, os.environ is as it was on entry for as long as   *)
(* variables are being resolved; every write to os.environ happens in      *)
(* phase 3, when no variable is left to resolve; and no variable name is   *)
(* written twice.                                                          *)
C4_ResolveBeforeWrite ==
    IsApplyCall =>
        /\ pc = "resolve" => environ = entry_environ
        /\ \A i \in 1..Len(env_writes) :
              env_writes[i].phase = 3 /\ env_writes[i].unresolved = 0
        /\ \A i, j \in 1..Len(env_writes) :
              env_writes[i].name = env_writes[j].name => i = j

\* two variables written by one apply
C4_Witness ==
    /\ Applied /\ Len(env_writes) = 2
    /\ environ # entry_environ

----------------------------------------------------------------------------
(* C5: a turn of phase 3 touches only the variable of its resolved entry:  *)
(* force sets os.environ to the resolved value and records it in           *)
(* write_log; immediate and lazy do both if the variable is absent and     *)
(* neither if it is present; already_set and skip do neither. When apply   *)
(* returns True, every name in write_log is set in os.environ to the value *)
(* recorded for it.                                                        *)
Logged(log, var_name, value) ==
    \E i \in 1..Len(log) : log[i] = [name |-> var_name, value |-> value]

C5_Phase3Step ==
    (pc = "apply" /\ apply_idx <= Len(resolved) /\ apply_idx' # apply_idx) =>
        LET v == resolved[apply_idx].var
            sets == /\ environ' = [environ EXCEPT ![v.name] = v.value]
                    /\ Logged(write_log', v.name, v.value)
                    /\ \A i \in 1..Len(write_log) :
                          write_log[i].name # v.name => Logged(write_log',
                              write_log[i].name, write_log[i].value)
            leaves == environ' = environ /\ write_log' = write_log
        IN IF v.set_policy = "force" THEN sets
           ELSE IF v.set_policy \in {"immediate", "lazy"}
           THEN IF environ[v.name] = Unset THEN sets ELSE leaves
           ELSE leaves

C5_Returned ==
    (pc = "apply" /\ pc' = "idle") =>
        /\ write_log' = write_log /\ environ' = environ
        /\ \A i \in 1..Len(write_log') :
              environ'[write_log'[i].name] = write_log'[i].value

C5_Phase3Policies == [][C5_Phase3Step /\ C5_Returned]_vars

\* a completed apply that forced one variable over its value, set an absent
\* one from a lazy definition and left nothing else in write_log
C5_Witness ==
    /\ Applied /\ Len(write_log) = 2
    /\ \E i, j \in 1..Len(resolved) :
          /\ resolved[i].var.set_policy = "force"
          /\ entry_environ[resolved[i].name] = "y"
          /\ resolved[j].var.set_policy = "lazy"

----------------------------------------------------------------------------
(* Notions the properties of validation are stated with *)

\* the validation results of a loaded layer under the environment env
ResultsOf(layer_name, env) == validate_env_vars(layers[layer_name], env)

HasStatus(results, statuses) ==
    \E i \in 1..Len(results) : results[i].status \in statuses

\* a record of a declared or required variable whose value was validated
\* and found invalid
HasInvalidValue(results) ==
    \E i \in 1..Len(results) :
        /\ results[i].status \in {"validated", "required_validated"}
        /\ results[i].valid = "False"

MissingRequiredStatuses == {"missing_required", "missing_required_var"}
SchemaStatuses ==
    {"unsupported_field", "missing_var_prefix", "invalid_default",
     "orphaned_attributes"}

\* the layer fails with something other than a missing required variable
FailsOtherwise(layer_name, env) ==
    \/ HasStatus(ResultsOf(layer_name, env), SchemaStatuses)
    \/ HasInvalidValue(ResultsOf(layer_name, env))

\* a call of apply_env_vars_for_build_order on loaded layers has returned
ApplyReturned ==
    /\ IsApplyCall /\ op.args # <<>> /\ pc = "idle"
    /\ Range(op.args) \subseteq Loaded

----------------------------------------------------------------------------
(* C13: apply_env_vars_for_build_order validates every layer of the build  *)
(* order before phase 1: if some layer fails, in the environment of entry, *)
(* with an unsupported field, an invalid default, an orphaned attribute, a *)
(* missing prefix or an invalid current value, the call returns False and  *)
(* os.environ is as it was on entry; and if no layer fails in such a way   *)
(* (missing required variables at most), the pre-flight does not abort.    *)
C13_PreflightAborts ==
    ApplyReturned =>
        IF \E i \in 1..Len(op.args) : FailsOtherwise(op.args[i], entry_environ)
        THEN result = Return(FALSE) /\ environ = entry_environ
        ELSE result = Return(TRUE)

----------------------------------------------------------------------------
(* C14: validate_single_layer_env_vars(L), for a loaded L, returns False   *)
(* whenever the validation results of L contain a record with status       *)
(* missing_required, missing_required_var, unsupported_field,              *)
(* missing_var_prefix, invalid_default or orphaned_attributes, or a        *)
(* validated / required_validated record that is not valid; and it returns *)
(* True when the only records that are not valid are optional_validated.   *)
C14_FailureStatuses ==
    (/\ op.name = "validate_single_layer_env_vars"
     /\ op.args[1] \in Loaded /\ ~op.args[2]) =>
        LET results == ResultsOf(op.args[1], entry_environ) IN
        /\ (\/ HasStatus(results, MissingRequiredStatuses \cup SchemaStatuses)
            \/ HasInvalidValue(results)) => result = Return(FALSE)
        /\ (\A i \in 1..Len(results) :
                results[i].valid = "False"
                    => results[i].status = "optional_validated")
              => result = Return(TRUE)

----------------------------------------------------------------------------
(* C15: process_layers(targets, "apply") returns False and leaves the      *)
(* output file alone whenever, in the environment it leaves, some layer    *)
(* reachable from the targets through required dependencies declares a     *)
(* required variable that is unset, or declares a variable whose value     *)
(* fails the validator of that declaration.                                *)
DeclaresUnmet(layer_name, env) ==
    \E j \in 1..Len(layers[layer_name].variables) :
        LET v == layers[layer_name].variables[j] IN
        \/ v.required /\ env[v.name] = Unset
        \/ /\ v.validator.present /\ env[v.name] # Unset
           /\ env[v.name] \notin v.validator.accepts

C15_Step ==
    (/\ op = Idle /\ op'.name = "process_layers" /\ op'.args[2] = "apply"
     /\ Range(op'.args[1]) \subseteq Loaded
     /\ ReachFrom(Range(op'.args[1])) \subseteq Loaded
     /\ \E n \in ReachFrom(Range(op'.args[1])) : DeclaresUnmet(n, environ'))
        => result' = Return(FALSE) /\ out_file' = out_file

C15_ApplyFailsOnUnmet == [][C15_Step]_vars

----------------------------------------------------------------------------
(* Notions the properties of duplicate detection are stated with *)

\* __init__ has ended, with a manager or with an error
ConstructionOver == pc # "load"

\* the visit i is of a file that parses and declares a layer
DeclaresLayer(i) == files[i].kind = "layer"

\* the visit i is of such a file that also passes the lint of load_layers in
\* the environment of construction
PassesLint(i) ==
    /\ DeclaresLayer(i)
    /\ lint_metadata_syntax(files[i].meta, environ) = <<>>

\* pairs of visits, in order, of two different files with one layer name
SameNamePairs(Eligible(_)) ==
    {ij \in (1..Len(files)) \X (1..Len(files)) :
        /\ ij[1] < ij[2]
        /\ Eligible(ij[1]) /\ Eligible(ij[2])
        /\ files[ij[1]].name = files[ij[2]].name
        /\ files[ij[1]].path # files[ij[2]].path}

\* the error names the layer and the paths of two visits, in order, of files
\* that declare it
NamesTwoVisits(Eligible(_)) ==
    \E i, j \in 1..Len(files) :
        /\ i < j /\ Eligible(i) /\ Eligible(j)
        /\ files[i].name = result.msg[2] /\ files[j].name = result.msg[2]
        /\ result.msg[3] = files[i].path /\ result.msg[4] = files[j].path

\* layers and layer_files have the same keys, each once, and the file of a
\* name is a visited file that declares the name
OneFilePerName ==
    /\ {layer_files[i].name : i \in 1..Len(layer_files)} = DOMAIN layers
    /\ IsInjective(LoadOrder)
    /\ \A i \in 1..Len(layer_files) :
          \E k \in 1..Len(files) :
              /\ files[k].path = layer_files[i].file
              /\ DeclaresLayer(k) /\ files[k].name = layer_files[i].name

----------------------------------------------------------------------------
(* C16 as stated: if discovery visits two different files that each parse, *)
(* declare a layer and declare the same layer name, construction raises a  *)
(* duplicate-layer error that identifies the paths of two such files and   *)
(* no manager is produced; in every constructed manager layers and         *)
(* layer_files have the same key set and each name maps to one file.       *)
C16_DuplicateRaises ==
    /\ (ConstructionOver /\ SameNamePairs(DeclaresLayer) # {}) =>
          /\ pc = "failed" /\ Raised("Duplicate layer name")
          /\ NamesTwoVisits(DeclaresLayer)
    /\ Constructed => OneFilePerName

(* C16 amended: if discovery visits two different files that each parse,   *)
(* declare a layer, pass the lint of load_layers and declare the same      *)
(* layer name, construction raises a duplicate-layer error and no manager  *)
(* is produced; a duplicate-layer error names a layer and the paths of two *)
(* visits of lint-clean files that declare it, the earlier one first; in   *)
(* every constructed manager layers and layer_files have the same key set  *)
(* and each name maps to one file. (A file that fails the lint is skipped  *)
(* before its name is looked at.)                                          *)
C16_DuplicateAmongLinted ==
    /\ (ConstructionOver /\ SameNamePairs(PassesLint) # {}) =>
          pc = "failed" /\ Raised("Duplicate layer name")
    /\ pc = "failed" =>
          Raised("Duplicate layer name") /\ NamesTwoVisits(PassesLint)
    /\ Constructed => OneFilePerName

\* construction failed on the second and third file, which declare the name
\* that the first, skipped by the lint, declares as well
C16_Witness ==
    /\ pc = "failed" /\ Raised("Duplicate layer name")
    /\ result.msg[3] = "f2" /\ result.msg[4] = "f3"
    /\ DeclaresLayer(1) /\ ~PassesLint(1) /\ files[1].name = result.msg[2]

----------------------------------------------------------------------------
(* C17: the result of lint_metadata_syntax for a file depends on the       *)
(* contents of the file only: a file that load_layers has linted has the   *)
(* same lint failures under every environment as under the environment of  *)
(* construction (so a file with a syntax-class error is skipped whatever   *)
(* the environment is), and a layer in layers lints clean under every      *)
(* environment.                                                            *)
C17_LintIgnoresEnviron ==
    /\ \A i \in 1..Len(files) :
          (DeclaresLayer(i) /\ i < file_idx) =>
              \A env \in LoadEnvirons :
                  lint_metadata_syntax(files[i].meta, env)
                      = lint_metadata_syntax(files[i].meta, environ)
    /\ \A n \in DOMAIN layers :
          \A env \in LoadEnvirons : lint_metadata_syntax(layers[n], env) = <<>>

----------------------------------------------------------------------------
(* C18: after an apply that returned True, write_log holds exactly the     *)
(* resolved variables whose policy is force, immediate or lazy, each once  *)
(* and with its resolved value, and lists them in ascending order of the   *)
(* earliest position over all the definitions of each variable in the      *)
(* build order.                                                            *)
EarliestPosition(var_name) == Earliest(Definitions(var_name)).position

C18_LogInApplicationOrder ==
    Applied =>
        /\ \A var_name \in VarNames :
              (\E i \in 1..Len(write_log) : write_log[i].name = var_name)
                  <=> \E r \in ResolvedFor(var_name) :
                          r.set_policy \in {"force", "immediate", "lazy"}
        /\ \A i \in 1..Len(write_log) :
              /\ write_log[i].name \in VarNames
              /\ \A r \in ResolvedFor(write_log[i].name) :
                    r.value = write_log[i].value
              /\ \A j \in 1..Len(write_log) :
                    i < j =>
                        /\ write_log[i].name # write_log[j].name
                        /\ EarliestPosition(write_log[i].name)
                               <= EarliestPosition(write_log[j].name)

\* both variables are in the log; the first one is defined at positions 0
\* and 1 and resolved from position 1, the second is defined at position 1
\* only
C18_Witness ==
    /\ Applied /\ Len(write_log) = 2
    /\ EarliestPosition(write_log[1].name) = 0
    /\ EarliestPosition(write_log[2].name) = 1
    /\ \E r \in ResolvedFor(write_log[1].name) : r.position = 1

----------------------------------------------------------------------------
(* C19: for integers MIN, MAX and v, the rule "int:MIN-MAX" parses (also   *)
(* with MIN > MAX) and its validator returns no error for v exactly when   *)
(* MIN <= v <= MAX, exactly one error, which mentions the minimum MIN,     *)
(* when v < MIN, and exactly one error, which mentions the maximum MAX,    *)
(* when v > MAX and v >= MIN; so with MIN > MAX every value is rejected.   *)
C19_IntRangeInclusive ==
    (/\ op.name = "parse_validator.validate"
     /\ \E v \in IntRange : op.args[3] = str(v)) =>
        LET MIN == op.args[1]
            MAX == op.args[2]
            v == CHOOSE v \in IntRange : op.args[3] = str(v)
        IN /\ result.kind = "return"
           /\ result.value = <<>> <=> (MIN <= v /\ v <= MAX)
           /\ v < MIN =>
                 /\ Len(result.value) = 1
                 /\ result.value[1].text = "is below minimum"
                 /\ result.value[1].bound = str(MIN)
           /\ (v > MAX /\ v >= MIN) =>
                 /\ Len(result.value) = 1
                 /\ result.value[1].text = "is above maximum"
                 /\ result.value[1].bound = str(MAX)
           /\ MIN > MAX => result.value # <<>>

----------------------------------------------------------------------------
(* Notions the properties of placeholder substitution are stated with *)

IsSubstitution == op.name = "_substitute_placeholders"

\* the step applies the substitution to the value the last one returned
SubstitutesAgain ==
    /\ IsSubstitution /\ op'.name = "_substitute_placeholders"
    /\ op'.args = result.value

EscapedFilename == <<"\\", "$", "{", "FILENAME", "}">>
LiteralFilename == <<"$", "{", "FILENAME", "}">>

\* the field value \${FILENAME} resolves to the literal ${FILENAME}
EscapeResolved ==
    (IsSubstitution /\ op.args = EscapedFilename) =>
        result = Return(LiteralFilename)

\* the text holds neither the escape \${ nor the text of the escape token
EscapeFree(text) ==
    /\ ~contains(text, <<"\\", "$", "{">>)
    /\ ~contains(text, <<ESCAPE_TOKEN>>)

(* C20 as stated: placeholder substitution is idempotent and escape-aware: *)
(* applied to an already-substituted field value it returns that value     *)
(* unchanged, for every field value, those with the escape \${NAME}        *)
(* included; and the field value \${FILENAME} in a file named x.yaml       *)
(* resolves to the literal ${FILENAME}.                                    *)
C20_IdempotentStep == SubstitutesAgain => result' = result

C20_IdempotentEscapeAware == [][C20_IdempotentStep /\ EscapeResolved']_vars

(* C20 amended: the field value \${FILENAME} in a file named x.yaml        *)
(* resolves to the literal ${FILENAME}, not x.yaml; and the substitution   *)
(* is idempotent on the field values that hold neither the escape \${ nor  *)
(* the text of the escape token: applied to the value it returned for such *)
(* a field value, it returns that value unchanged. (The literal ${NAME}    *)
(* that an escape resolves to is a placeholder to a second application.)   *)
C20_EscapeFreeStep ==
    (SubstitutesAgain /\ EscapeFree(op.args)) => result' = result

C20_IdempotentWithoutEscape == [][C20_EscapeFreeStep /\ EscapeResolved']_vars

\* a second application, to the value in which the first has put the file
\* name for ${FILENAME}
C20_Witness ==
    /\ IsSubstitution
    /\ op.args = <<"x.yaml">>
    /\ result = Return(<<"x.yaml">>)

----------------------------------------------------------------------------
(* Notions the properties of provider resolution are stated with *)

\* get_build_order has returned an order
Accepted == IsBuildOrderCall /\ Returned

\* the layers of the returned order that provide the token
ProvidersInOrder(token) == {m \in Range(result.value) : token \in Provides(m)}

(* C21 as stated: within a build order accepted by get_build_order, each   *)
(* requires_provider token of a layer is satisfied by exactly one provider *)
(* of the order, and that provider is a layer other than the requiring     *)
(* layer.                                                                  *)
C21_OneOtherProvider ==
    Accepted =>
        \A n \in Range(result.value) : \A token \in RequiresProvider(n) :
            /\ Cardinality(ProvidersInOrder(token)) = 1
            /\ n \notin ProvidersInOrder(token)

(* C21 amended: within a build order accepted by get_build_order, each     *)
(* requires_provider token of a layer is provided by exactly one layer of  *)
(* that order, which lists the token once; the provider may be the         *)
(* requiring layer itself.                                                 *)
C21_OneProvider ==
    Accepted =>
        \A n \in Range(result.value) : \A token \in RequiresProvider(n) :
            /\ Cardinality(ProvidersInOrder(token)) = 1
            /\ \A m \in ProvidersInOrder(token) :
                  Cardinality({j \in 1..Len(layers[m].provides) :
                                   layers[m].provides[j] = token}) = 1

\* an accepted order of two layers or more in which a layer requires the
\* token that it provides itself
C21_Witness ==
    /\ Accepted /\ Len(result.value) >= 2
    /\ \E n \in Range(result.value) :
          /\ "X" \in RequiresProvider(n)
          /\ ProvidersInOrder("X") = {n}

----------------------------------------------------------------------------
(* C22: write_log is reset on every apply: after a call of                 *)
(* apply_env_vars_for_build_order, whatever its outcome, write_log holds   *)
(* only entries written by that call: none when the call returned False or *)
(* was given the empty build order (it wrote nothing), and otherwise only  *)
(* variables that a layer of its build order defines, with the value the   *)
(* call left in os.environ.                                                *)
C22_LogResetEveryApply ==
    (IsApplyCall /\ pc = "idle") =>
        IF result = Return(FALSE) \/ op.args = <<>>
        THEN write_log = <<>>
        ELSE \A i \in 1..Len(write_log) :
                /\ Definitions(write_log[i].name) # {}
                /\ environ[write_log[i].name] = write_log[i].value

----------------------------------------------------------------------------
(* Notions the properties of the validation results are stated with *)

\* the file of visit i has been through the lint of load_layers, which runs
\* validate_env_vars on it
Validated(i) == DeclaresLayer(i) /\ i < file_idx

\* the places of results that hold a record of the declared variable: under
\* its own name, or under DEFAULT_ and its name
OwnRecords(results, var_name) ==
    {k \in 1..Len(results) : results[k].name = <<"", var_name>>}
DefaultRecords(results, var_name) ==
    {k \in 1..Len(results) : results[k].name = <<"DEFAULT_", var_name>>}

\* validation stops at the schema, prefix and orphan checks of the file
StopsEarly(meta) ==
    collect_schema_errors(meta) # <<>> \/ validate_prefix_and_orphans(meta) # <<>>

(* C23 as stated: for every file and every environment, validate_env_vars  *)
(* yields exactly one result record for each declared variable.            *)
C23_OneRecordPerVariable ==
    \A i \in 1..Len(files) : Validated(i) =>
        \A env \in LoadEnvirons :
            LET results == validate_env_vars(files[i].meta, env) IN
            \A j \in 1..Len(files[i].meta.variables) :
                LET var_name == files[i].meta.variables[j].name IN
                Cardinality(OwnRecords(results, var_name)
                                \cup DefaultRecords(results, var_name)) = 1

(* C23 amended: for every environment, validate_env_vars of a file that    *)
(* passes the schema, prefix and orphan checks yields, for each declared   *)
(* variable, exactly one record under the name of the variable, and in     *)
(* addition a record DEFAULT_<name> with status invalid_default when the   *)
(* variable is settable, its validator rejects its default and it is not   *)
(* lazy_overridden: one record or two, never none. For a file that fails   *)
(* one of these checks it yields the records of the failed check only and  *)
(* none for any declared variable.                                         *)
C23_OwnRecordPlusDefault ==
    \A i \in 1..Len(files) : Validated(i) =>
        \A env \in LoadEnvirons :
            LET results == validate_env_vars(files[i].meta, env) IN
            \A j \in 1..Len(files[i].meta.variables) :
                LET v == files[i].meta.variables[j]
                    own == OwnRecords(results, v.name)
                    default == DefaultRecords(results, v.name)
                    overridden == \E k \in own : results[k].status = "lazy_overridden"
                IN IF StopsEarly(files[i].meta)
                   THEN own = {} /\ default = {}
                   ELSE /\ Cardinality(own) = 1
                        /\ Cardinality(default) <= 1
                        /\ \A k \in default : results[k].status = "invalid_default"
                        /\ default # {} <=>
                              /\ v.validator.present /\ v.set_policy # "skip"
                              /\ v.value \notin v.validator.accepts
                              /\ ~overridden

\* a visited file whose variable has two records in the environment of
\* construction, and another visited file whose variable has none
C23_Witness ==
    \E i, k \in 1..Len(files) :
        /\ Validated(i) /\ Validated(k)
        /\ files[i].meta.variables # <<>> /\ ~StopsEarly(files[i].meta)
        /\ DefaultRecords(validate_env_vars(files[i].meta, environ), "V") # {}
        /\ OwnRecords(validate_env_vars(files[i].meta, environ), "V") # {}
        /\ files[k].meta.variables # <<>> /\ StopsEarly(files[k].meta)

----------------------------------------------------------------------------
(* get_all_dependencies and check_dependencies *)

\* "if x not in all_deps: all_deps.append(x)"
AppendNew(all_deps, x) ==
    IF \E i \in 1..Len(all_deps) : all_deps[i] = x THEN all_deps
    ELSE Append(all_deps, x)

RECURSIVE AppendAllNew(_, _, _)
AppendAllNew(all_deps, xs, i) ==
    IF i > Len(xs) THEN all_deps
    ELSE AppendAllNew(AppendNew(all_deps, xs[i]), xs, i + 1)

RECURSIVE get_all_dependencies(_, _, _)
RECURSIVE all_required_each(_, _, _, _, _)
RECURSIVE all_optional_each(_, _, _, _, _)

\* the list of all dependencies, transitive ones included; each recursive
\* call gets its own copy of the visited set
get_all_dependencies(layer_name, visited, include_optional) ==
    IF layer_name \in visited \/ layer_name \notin DOMAIN layers THEN <<>>
    ELSE LET seen == visited \cup {layer_name}
             required == all_required_each(get_dependencies(layer_name), 1,
                             seen, include_optional, <<>>)
         IN IF include_optional
            THEN all_optional_each(get_optional_dependencies(layer_name), 1,
                     seen, include_optional, required)
            ELSE required

\* "for dep in self.get_dependencies(layer_name)"
all_required_each(deps, i, visited, include_optional, all_deps) ==
    IF i > Len(deps) THEN all_deps
    ELSE all_required_each(deps, i + 1, visited, include_optional,
             AppendAllNew(AppendNew(all_deps, deps[i]),
                 get_all_dependencies(deps[i], visited, include_optional), 1))

\* "for opt_dep in self.get_optional_dependencies(layer_name)"
all_optional_each(deps, i, visited, include_optional, all_deps) ==
    IF i > Len(deps) THEN all_deps
    ELSE IF deps[i] \in DOMAIN layers
            /\ ~ \E k \in 1..Len(all_deps) : all_deps[k] = deps[i]
         THEN all_optional_each(deps, i + 1, visited, include_optional,
                  AppendAllNew(Append(all_deps, deps[i]),
                      get_all_dependencies(deps[i], visited, include_optional), 1))
         ELSE all_optional_each(deps, i + 1, visited, include_optional, all_deps)

RECURSIVE not_loaded_messages(_, _, _)
\* one message per listed layer that is not loaded
not_loaded_messages(deps, i, what) ==
    IF i > Len(deps) THEN <<>>
    ELSE IF deps[i] \notin DOMAIN layers
         THEN <<<<what, deps[i]>>>> \o not_loaded_messages(deps, i + 1, what)
         ELSE not_loaded_messages(deps, i + 1, what)

\* "except ValueError as e" around get_build_order([layer_name])
Caught(order) == order.kind = "ValueError"

\* check_dependencies(layer_name): Return(<<ok, messages>>), or the exception
\* that leaves it
check_dependencies(layer_name) ==
    IF layer_name \notin DOMAIN layers
    THEN Return(<<FALSE, <<<<"not found in search paths", layer_name>>>>>>)
    ELSE LET missing == not_loaded_messages(
                            get_all_dependencies(layer_name, {}, FALSE), 1,
                            "Missing required dependency")
             warnings == not_loaded_messages(
                             get_optional_dependencies(layer_name), 1,
                             "Optional dependency not available")
             circular == check_circular_dependencies(layer_name, <<>>, 1)
             order == get_build_order(<<layer_name>>)
         IN IF circular.kind # "return" THEN circular
            ELSE LET missing2 == IF circular.value # <<>>
                                 THEN Append(missing,
                                          <<"Circular dependency detected",
                                            circular.value>>)
                                 ELSE missing
                     missing3 == IF Caught(order)
                                 THEN Append(missing2, order.msg)
                                 ELSE missing2
                 IN IF order.kind # "return" /\ ~Caught(order) THEN order
                    ELSE Return(<<missing3 = <<>>, missing3 \o warnings>>)

\* a call of check_dependencies(layer_name)
CheckDependencies ==
    /\ pc = "idle" /\ op = Idle
    /\ \E layer_name \in Names :
          /\ op' = [name |-> "check_dependencies", args |-> <<layer_name>>]
          /\ result' = check_dependencies(layer_name)
    /\ UNCHANGED <<layers, environ, write_log, apply_vars, load_vars, out_file>>

\* a call of get_all_dependencies(layer_name, include_optional=...)
GetAllDependencies ==
    /\ pc = "idle" /\ op = Idle
    /\ \E layer_name \in Names, include_optional \in BOOLEAN :
          /\ op' = [name |-> "get_all_dependencies",
                    args |-> <<layer_name, include_optional>>]
          /\ result' = Return(get_all_dependencies(layer_name, {}, include_optional))
    /\ UNCHANGED <<layers, environ, write_log, apply_vars, load_vars, out_file>>

NextCheck == CheckDependencies \/ GetAllDependencies \/ ProcessLayers \/ ReturnToCaller

\* managers that differ in their required dependencies; callers that check
\* dependencies and process layers
SpecCheck == Init /\ [][NextCheck]_vars

\* the layer has a dependency cycle among the loaded layers in its chain
CycleInChain(n) == n \in Loaded /\ \E c \in ReachFrom({n}) : OnCycle(c)

\* a list of layers that ends where it went through before
IsCycleChain(chain) ==
    /\ Len(chain) >= 2
    /\ \E i \in 1..(Len(chain) - 1) : chain[i] = chain[Len(chain)]
    /\ \A i \in 1..(Len(chain) - 1) : chain[i + 1] \in Requires(chain[i])

\* the messages name a dependency cycle and give its chain
CarriesCycle(messages) ==
    \E i \in 1..Len(messages) :
        /\ messages[i][1] = "Circular dependency detected"
        /\ IsCycleChain(messages[i][2])

\* C24: check_dependencies(L), for a loaded layer L whose chain of required
\* dependencies has a cycle among loaded layers, returns (False, messages)
\* with a "Circular dependency detected" message that gives the cycle chain;
\* and process_layers on such a layer fails by returning False, it does not
\* leave with an exception that says nothing of the cycle
C24_CycleReported ==
    /\ (op.name = "check_dependencies" /\ CycleInChain(op.args[1])) =>
           /\ Returned
           /\ result.value[1] = FALSE
           /\ CarriesCycle(result.value[2])
    /\ (op.name = "process_layers"
           /\ \E i \in 1..Len(op.args[1]) : CycleInChain(op.args[1][i])) =>
           result = Return(FALSE)

----------------------------------------------------------------------------
(* Parsing a layer file: EnvLayer.from_metadata_fields *)

\* a dependency token is a sequence of text pieces; the piece "${V}" is a
\* reference to the environment variable V
Ref(v) == "${" \o v \o "}"
IsRef(piece) == \E v \in VarNames : piece = Ref(v)
VarOf(piece) == CHOOSE v \in VarNames : piece = Ref(v)

\* the pieces matched by [A-Za-z0-9_-]+
NamePieces == Names \cup Tokens \cup {"-"}

RECURSIVE join(_)
\* the text of a sequence of pieces
join(pieces) == IF pieces = <<>> THEN "" ELSE Head(pieces) \o join(Tail(pieces))

RECURSIVE evaluate_env_variables(_, _, _)
\* re.sub over the ${VAR} references of the text: the value of the variable,
\* or in documentation mode the reference itself when the variable is unset
evaluate_env_variables(text, doc_mode, env) ==
    IF text = <<>> THEN Return(<<>>)
    ELSE LET piece == Head(text)
             rest == evaluate_env_variables(Tail(text), doc_mode, env)
         IN IF IsRef(piece) /\ env[VarOf(piece)] = Unset /\ ~doc_mode
            THEN ValueError(<<"Environment variable not found for dependency evaluation",
                              VarOf(piece)>>)
            ELSE IF rest.kind # "return" THEN rest
            ELSE IF IsRef(piece) /\ env[VarOf(piece)] # Unset
            THEN Return(<<env[VarOf(piece)]>> \o rest.value)
            ELSE Return(<<piece>> \o rest.value)

\* the two tests of the dependency name's format
ValidDependencyName(dep_name, doc_mode) ==
    \A i \in 1..Len(dep_name) :
        \/ dep_name[i] \in NamePieces
        \/ doc_mode /\ IsRef(dep_name[i])

RECURSIVE parse_dependency_list(_, _, _, _, _)
\* _parse_dependency_list over the comma-separated tokens of the field
parse_dependency_list(tokens, i, doc_mode, env, deps) ==
    IF i > Len(tokens) THEN Return(deps)
    ELSE LET dep == strip(tokens[i])
             evaluated == IF \E k \in 1..Len(dep) : IsRef(dep[k])
                          THEN evaluate_env_variables(dep, doc_mode, env)
                          ELSE Return(dep)
         IN IF dep = <<>>
            THEN parse_dependency_list(tokens, i + 1, doc_mode, env, deps)
            ELSE IF evaluated.kind # "return" THEN evaluated
            ELSE IF \E k \in 1..Len(evaluated.value) : evaluated.value[k] = " "
            THEN ValueError(<<"Invalid dependency token", join(evaluated.value)>>)
            ELSE IF ~ValidDependencyName(evaluated.value, doc_mode)
            THEN ValueError(<<"Invalid dependency name", join(evaluated.value)>>)
            ELSE parse_dependency_list(tokens, i + 1, doc_mode, env,
                     Append(deps, join(evaluated.value)))

\* the fields of a layer file as written: the layer name and the four
\* dependency fields
RawFile(path, name, fields) ==
    [path |-> path, kind |-> "raw", name |-> name, meta |-> fields]
NoFields ==
    [Requires |-> <<>>, Provides |-> <<>>, RequiresProvider |-> <<>>,
     Conflicts |-> <<>>]

\* Metadata(filepath, doc_mode) as far as EnvLayer.from_metadata_fields goes:
\* the parsed file, or the ValueError of the first field that fails
ParseMetadata(raw, doc_mode, env) ==
    IF raw.name = "" THEN Return(NoLayerInfo)
    ELSE LET requires == parse_dependency_list(raw.meta.Requires, 1, doc_mode, env, <<>>)
             provides == parse_dependency_list(raw.meta.Provides, 1, doc_mode, env, <<>>)
             requires_provider ==
                 parse_dependency_list(raw.meta.RequiresProvider, 1, doc_mode, env, <<>>)
             conflicts == parse_dependency_list(raw.meta.Conflicts, 1, doc_mode, env, <<>>)
         IN IF requires.kind # "return" THEN requires
            ELSE IF provides.kind # "return" THEN provides
            ELSE IF requires_provider.kind # "return" THEN requires_provider
            ELSE IF conflicts.kind # "return" THEN conflicts
            ELSE Return(LayerFile(raw.name,
                     EnvLayer(requires.value, provides.value,
                              requires_provider.value, <<>>)))

\* one turn of the loop of load_layers, from the file as written:
\* "try: meta = Metadata(...) except Exception: continue"
load_raw_file(raw, st, doc_mode, env) ==
    LET meta == ParseMetadata(raw, doc_mode, env) IN
    IF meta.kind # "return" THEN st
    ELSE load_file(FileAt(raw.path, meta.value), st, env)

DepTokens ==
    {<<"B">>, <<Ref("V")>>, <<"X", "-", Ref("V")>>, <<"B", " ", "C">>,
     <<" ", "B">>, <<"B", "/">>}
FieldNames == {"Requires", "Provides", "RequiresProvider", "Conflicts"}

\* the files of the search path: f1 declares layer A with at most one token
\* in one of its fields; f2 declares layer B or no layer
RawLists ==
    {<<RawFile("f1", "A", [NoFields EXCEPT ![f] = t]), RawFile("f2", n, [NoFields EXCEPT !.Requires = u])>> :
         f \in FieldNames, t \in SeqUpTo(DepTokens, 1), n \in {"B", ""},
         u \in {<<>>, <<<<Ref("V")>>>>}}

ParseEnvirons == {UnsetEnviron, [UnsetEnviron EXCEPT !["V"] = "B"]}

InitParse ==
    /\ files \in RawLists
    /\ file_idx = 1
    /\ layers = EmptyDict
    /\ layer_files = <<>>
    /\ provider_index = EmptyDict
    /\ provider_conflicts = EmptyDict
    /\ environ \in ParseEnvirons
    /\ write_log = <<>>
    /\ \E doc_mode \in BOOLEAN : op = [name |-> "__init__", args |-> <<doc_mode>>]
    /\ result = NoErr
    /\ pc = "load"
    /\ entry_environ = UnsetEnviron
    /\ todo = <<>>
    /\ resolved = <<>>
    /\ apply_idx = 0
    /\ env_writes = <<>>
    /\ out_file = NoFile

\* load_layers: one turn of the loop over the files as written
LoadRawFile ==
    /\ pc = "load" /\ file_idx <= Len(files)
    /\ LET st == load_raw_file(files[file_idx],
                     [layers |-> layers, layer_files |-> layer_files,
                      err |-> NoErr], op.args[1], environ)
       IN /\ layers' = st.layers
          /\ layer_files' = st.layer_files
          /\ IF st.err # NoErr
             THEN /\ pc' = "failed"
                  /\ result' = st.err
                  /\ file_idx' = file_idx
             ELSE /\ file_idx' = file_idx + 1
                  /\ UNCHANGED <<pc, result>>
    /\ UNCHANGED <<environ, write_log, op, entry_environ, todo, resolved,
                   apply_idx, env_writes, files, provider_index,
                   provider_conflicts, out_file>>

\* a caller parses one of the files on its own: Metadata(path, doc_mode)
ParseAlone ==
    /\ pc = "idle" /\ op = Idle
    /\ \E i \in 1..Len(files), doc_mode \in BOOLEAN :
          /\ op' = [name |-> "Metadata", args |-> <<i, doc_mode>>]
          /\ result' = ParseMetadata(files[i], doc_mode, environ)
    /\ UNCHANGED <<layers, environ, write_log, apply_vars, load_vars, out_file>>

NextParse == LoadRawFile \/ BuildProviderIndex \/ ParseAlone \/ ReturnToCaller

SpecParse == InitParse /\ [][NextParse]_vars

\* the file declares a layer and one of its dependency tokens refers to a
\* variable that the environment does not have
UnresolvedTokens(raw) ==
    {t \in UNION {Range(raw.meta[f]) : f \in FieldNames} :
         \E k \in 1..Len(t) : IsRef(t[k]) /\ environ[VarOf(t[k])] = Unset}
HasUnresolved(raw) == raw.name # "" /\ UnresolvedTokens(raw) # {}

\* the parsed layer has the token as written in one of its lists
LeftLiteral(parsed, t) ==
    join(t) \in Range(parsed.meta.deps) \cup Range(parsed.meta.provides)
                    \cup Range(parsed.meta.requires_provider)

\* C25: outside documentation mode a layer file with a dependency token that
\* refers to a variable absent from the environment is an error the caller
\* gets, both from Metadata() on the file alone and from the construction of
\* a LayerManager that discovers the file, the layer is not dropped silently;
\* in documentation mode the reference stays literal and the layer loads
C25_UnresolvedReferenceSurfaced ==
    /\ (op.name = "Metadata" /\ HasUnresolved(files[op.args[1]])) =>
           IF op.args[2]
           THEN /\ Returned
                /\ \A t \in UnresolvedTokens(files[op.args[1]]) :
                       files[op.args[1]].meta.Conflicts # <<t>>
                           => LeftLiteral(result.value, t)
           ELSE result.kind = "ValueError"
    /\ (op.name = "__init__" /\ pc # "load") =>
           \A i \in 1..Len(files) :
               (files[i].kind = "raw" /\ HasUnresolved(files[i])) =>
                   IF op.args[1]
                   THEN files[i].name \in DOMAIN layers
                   ELSE result.kind = "ValueError"

----------------------------------------------------------------------------
(* The operations of a constructed manager, in any order *)

NextOps ==
    \/ GetBuildOrder
    \/ CheckDependencies
    \/ GetAllDependencies
    \/ ProcessLayers
    \/ ReturnToCaller

\* managers whose layers declare variables, so that an apply changes the
\* environment and the log between two calls
SpecOps == InitProcess /\ [][NextOps]_vars

\* the layers the files of the constructed manager declare
ConstructedLayers ==
    [n \in {files[i].name : i \in 1..Len(files)} |->
        files[CHOOSE i \in 1..Len(files) : files[i].name = n].meta]

\* no operation of a constructed manager changes layers, layer_files,
\* provider_index or provider_conflicts, and get_build_order changes neither
\* the environment nor write_log
C26_GraphKept ==
    [][/\ layers' = layers
       /\ layer_files' = layer_files
       /\ provider_index' = provider_index
       /\ provider_conflicts' = provider_conflicts
       /\ op'.name = "get_build_order" =>
              environ' = environ /\ write_log' = write_log]_vars

\* the consequence: whatever operations came before, get_build_order
\* returns what it returns on the manager as constructed, so two calls with
\* the same targets have the same outcome
BuildOrderOfConstructed ==
    /\ layers = ConstructedLayers
    /\ op.name = "get_build_order" =>
           /\ result = get_build_order(op.args)
           /\ \A n \in DOMAIN layers :
                  get_dependencies(n) = ConstructedLayers[n].deps

----------------------------------------------------------------------------
(* Metadata.set_env_vars *)

\* the default values that value.strip() leaves empty
BlankValues == {"", " "}

\* "env_var.validator and hasattr(env_var.validator, 'allow_unset') and
\* env_var.validator.allow_unset and not env_var.value.strip()"
EmptyAndMayBeUnset(env_var) ==
    /\ env_var.validator.present
    /\ env_var.validator.allow_unset
    /\ env_var.value \in BlankValues

\* one turn of the loop of set_env_vars: the environment after it
set_env_var(env_var, env) ==
    LET current_value == env[env_var.name] IN
    CASE env_var.set_policy = "skip" -> env
      [] env_var.set_policy = "force" ->
            IF EmptyAndMayBeUnset(env_var) THEN env
            ELSE [env EXCEPT ![env_var.name] = env_var.value]
      [] env_var.set_policy = "immediate" ->
            IF current_value = Unset
            THEN [env EXCEPT ![env_var.name] = env_var.value]
            ELSE env
      [] env_var.set_policy = "lazy" ->
            IF current_value = Unset
            THEN IF EmptyAndMayBeUnset(env_var) THEN env
                 ELSE [env EXCEPT ![env_var.name] = env_var.value]
            ELSE env
      [] OTHER -> env

RECURSIVE set_each(_, _, _)
set_each(variables, i, env) ==
    IF i > Len(variables) THEN env
    ELSE set_each(variables, i + 1, set_env_var(variables[i], env))

\* set_env_vars of a file: its outcome and the environment it leaves
set_env_vars(meta, env) ==
    IF meta.unsupported_var_fields # <<>>
    THEN [outcome |-> ValueError(<<"Cannot process variables with unsupported fields",
                                   meta.unsupported_var_fields>>),
          environ |-> env]
    ELSE IF meta.variables # <<>> /\ ~meta.var_prefix
    THEN [outcome |-> ValueError(<<"X-Env-VarPrefix is missing">>), environ |-> env]
    ELSE [outcome |-> Return(<<>>), environ |-> set_each(meta.variables, 1, env)]

\* validators as set_env_vars sees them: none, string, string-or-unset
SetValidators ==
    {[present |-> FALSE, accepts |-> {}, allow_unset |-> FALSE],
     [present |-> TRUE, accepts |-> {"a", " "}, allow_unset |-> FALSE],
     [present |-> TRUE, accepts |-> {"a", " ", "", Unset}, allow_unset |-> TRUE]}

\* files that declare V, and may declare W after it
SetFiles ==
    {WithFields(EnvLayer(<<>>, <<>>, <<>>, vs), prefix, unsupported, <<>>, <<>>, <<>>, <<>>) :
         vs \in {<<[name |-> "V", value |-> d, required |-> FALSE,
                    validator |-> val, set_policy |-> pol]>> \o w :
                     d \in BlankValues \cup {"a"}, val \in SetValidators,
                     pol \in SetPolicies,
                     w \in {<<>>, <<[name |-> "W", value |-> "a", required |-> FALSE,
                                     validator |-> [present |-> FALSE, accepts |-> {},
                                                    allow_unset |-> FALSE],
                                     set_policy |-> "lazy"]>>}},
         prefix \in BOOLEAN, unsupported \in {<<>>, <<"X-Env-Var-v-Bogus">>}}

\* a call of Metadata(file).set_env_vars()
SetEnvVars ==
    /\ pc = "idle" /\ op = Idle
    /\ \E meta \in SetFiles :
          LET r == set_env_vars(meta, environ) IN
          /\ op' = [name |-> "set_env_vars", args |-> <<meta>>]
          /\ result' = r.outcome
          /\ environ' = r.environ
    /\ entry_environ' = environ
    /\ UNCHANGED <<layers, write_log, pc, todo, resolved, apply_idx, env_writes,
                   load_vars, out_file>>

NextSet == SetEnvVars \/ ReturnToCaller

InitSet == InitManager({EmptyDict}, [VarNames -> {Unset, "", "y"}])

SpecSet == InitSet /\ [][NextSet]_vars

\* the file with every lazy variable declared immediate instead
AsImmediate(meta) ==
    [meta EXCEPT !.variables =
        [i \in 1..Len(meta.variables) |->
            IF meta.variables[i].set_policy = "lazy"
            THEN [meta.variables[i] EXCEPT !.set_policy = "immediate"]
            ELSE meta.variables[i]]]

\* C27: set_env_vars treats a lazy variable as an immediate one: it leaves
\* the environment that it leaves when the variable is declared immediate,
\* the variable set to its default when it was absent and unchanged when it
\* was present, whatever the default, the validator and the environment
C27_LazyAsImmediate ==
    op.name = "set_env_vars" =>
        /\ environ = set_env_vars(AsImmediate(op.args[1]), entry_environ).environ
        /\ Returned =>
              \A i \in 1..Len(op.args[1].variables) :
                  LET env_var == op.args[1].variables[i] IN
                  env_var.set_policy = "lazy" =>
                      environ[env_var.name] =
                          IF entry_environ[env_var.name] = Unset
                          THEN env_var.value
                          ELSE entry_environ[env_var.name]

----------------------------------------------------------------------------
(* ConfigLoader: include loading *)

\* an include graph: the files a file names in its include directives, in the
\* order of the directives (every named file exists)
IncludeLists == SeqUpTo(Paths, MaxIncludes)
IniGraphs == [Paths -> IncludeLists]
\* a YAML file has one include mapping at most
YamlGraphs == [Paths -> SeqUpTo(Paths, 1)]

RECURSIVE load_recursive(_, _, _, _)
RECURSIVE load_includes(_, _, _, _, _)

\* _load_ini_recursive and _load_yaml_recursive: one set of visited paths for
\* the whole load, a path is added on entry and never removed;
\* st = [visited, read, err], read being the files in the order their own
\* content is merged
load_recursive(graph, path, st, depth) ==
    IF st.err # NoErr THEN st
    ELSE IF depth > RecLimit THEN [st EXCEPT !.err = RecursionError]
    ELSE IF path \in st.visited
    THEN [st EXCEPT !.err = ValueError(<<"Circular include detected", path>>)]
    ELSE LET st1 == load_includes(graph, graph[path], 1,
                        [st EXCEPT !.visited = @ \cup {path}], depth)
         IN IF st1.err # NoErr THEN st1
            ELSE [st1 EXCEPT !.read = Append(@, path)]

\* the include directives of one file, in order
load_includes(graph, includes, i, st, depth) ==
    IF i > Len(includes) \/ st.err # NoErr THEN st
    ELSE load_includes(graph, includes, i + 1,
             load_recursive(graph, includes[i], st, depth + 1), depth)

\* ConfigLoader(cfg_path): _load of the top file f1
load_config(graph) ==
    LET st == load_recursive(graph, "f1", [visited |-> {}, read |-> <<>>,
                                            err |-> NoErr], 1)
    IN IF st.err # NoErr THEN st.err ELSE Return(st.read)

\* a ConfigLoader is constructed on the top file of an include graph
LoadConfig ==
    /\ pc = "idle" /\ op = Idle
    /\ \E format \in {"ini", "yaml"} :
          \E graph \in (IF format = "ini" THEN IniGraphs ELSE YamlGraphs) :
              /\ op' = [name |-> "ConfigLoader", args |-> <<format, graph>>]
              /\ result' = load_config(graph)
    /\ UNCHANGED <<layers, environ, write_log, apply_vars, load_vars, out_file>>

NextConfig == LoadConfig \/ ReturnToCaller

InitConfig == InitManager({EmptyDict}, {UnsetEnviron})

SpecConfig == InitConfig /\ [][NextConfig]_vars

\* the files reached from a set of files by include directives
RECURSIVE IncludedFrom(_, _)
IncludedFrom(graph, S) ==
    LET T == S \cup UNION {Range(graph[p]) : p \in S} IN
    IF T = S THEN S ELSE IncludedFrom(graph, T)

\* the include graph reachable from the top file has a cycle
IncludeCycle(graph) ==
    \E p \in IncludedFrom(graph, {"f1"}) : p \in IncludedFrom(graph, Range(graph[p]))

\* C30: include loading ends on every include graph, and it raises "Circular
\* include detected" exactly when the graph reachable from the top file has
\* a cycle: a file included from two files, or twice from one INI file,
\* loads without error when there is no cycle
C30_CircularIffCycle ==
    op.name = "ConfigLoader" =>
        /\ result.kind \in {"return", "ValueError"}
        /\ result.kind = "ValueError" <=> IncludeCycle(op.args[2])

----------------------------------------------------------------------------
(* C28: get_build_order raises a provider-conflict error only when two     *)
(* different layers of the computed order declare the same provides token; *)
(* an order in which every token is declared by one layer only, even by a  *)
(* layer that lists the token more than once, is not rejected.             *)
C28_ConflictNeedsTwoLayers ==
    OrderBuilt =>
        /\ Raised("Provider conflict") =>
              /\ result.msg[3] # result.msg[4]
              /\ SharedProvider(ComputedOrder)
        /\ ~SharedProvider(ComputedOrder) => ~Raised("Provider conflict")

----------------------------------------------------------------------------
(* C29: construction raises the duplicate-layer error only when two        *)
(* different files declare the same layer name; one layer file that        *)
(* discovery reaches more than once is loaded once and is never reported   *)
(* as a duplicate of itself.                                               *)
C29_DuplicateNeedsTwoFiles ==
    ConstructionOver =>
        /\ (pc = "failed" /\ Raised("Duplicate layer name")) =>
              /\ result.msg[3] # result.msg[4]
              /\ SameNamePairs(DeclaresLayer) # {}
        /\ SameNamePairs(DeclaresLayer) = {} =>
              /\ pc # "failed"
              /\ \A i \in 1..Len(files) :
                     PassesLint(i) => files[i].name \in DOMAIN layers
              /\ OneFilePerName

====
